---- MODULE Spec2Model ----
(***************************************************************************)
(* Grid market-making engine (bot/grid_engine.py) together with the        *)
(* position monitor of the private WebSocket client                        *)
(* (edgex_sdk/ws/client.py).                                               *)
(*                                                                         *)
(* Prices are integers counted in price ticks (EDGEX_PRICE_TICK = 1 unit). *)
(* Position sizes are integers counted in units of 0.00005 BTC, so that    *)
(* the monitor's 0.0001 "effectively zero" threshold is 2 units.           *)
(* Every controller action runs from the completion of one awaited         *)
(* adapter call (or sleep) to the next one; the monitor thread and the     *)
(* exchange act between two controller actions.                            *)
(***************************************************************************)
EXTENDS Integers, Sequences, FiniteSets, TLC

VARIABLES
    mode,                   \* "BOX" | "BIN"   (box_mode / bin_mode, fixed at construction)
    pc,                     \* position of the controller task inside run()
    last_tick,              \* how the previous loop iteration ended
    loop_iter,              \* _loop_iter modulo active_sync_every
    mid_price,              \* local mid_price of the running iteration
    placed_buy_px_to_id,    \* mirror, BUY side : price -> order id
    placed_sell_px_to_id,   \* mirror, SELL side: price -> order id
    cached_active_orders,   \* _cached_active_orders (rows id/side/price)
    initialized,
    bin_center_units,       \* _bin_center_units, None = -1
    reduce_mode,            \* _reduce_mode
    self_cross_skip_count,
    buy_iter, sell_iter,    \* iterators of the interleaved placement loops
    current_side,
    filled_buy_prices, filled_sell_prices,
    active_orders,          \* _replenish_if_filled: local list active_orders
    cache_aliased,          \* active_orders and _cached_active_orders are the same list object
    slides_left,            \* remaining iterations of the BIN slide loop
    submitted,              \* history: orders handed to adapter.place_order in this iteration
    open_orders,            \* exchange: OPEN orders of the account
    next_id,                \* exchange: next order id
    env_events,             \* environment: failures, fills and stream events so far
    all_positions,          \* ws client: all_positions
    current_price,          \* ws client: current_price, None = -1
    losscut_triggered,      \* ws client: latch of the position loss cut and take profit
    balance_recovery_triggered,
    asset_losscut_triggered,
    asset_takeprofit_triggered,
    current_balance,        \* ws client: current_balance, None = -1
    initial_asset,          \* ws client: initial_asset, None = -1
    thresholds,             \* the trigger thresholds of the monitor are configured
    use_schedule,           \* EDGEX_USE_SCHEDULE
    exit_action,            \* EDGEX_OUT_OF_SCHEDULE_ACTION
    position_limits,        \* position_size_limit, position_size_reduce_only,
                            \* position_ratio_limit, position_ratio_reduce_only
    schedule_active,        \* what schedule_manager.is_active() answers now
    last_schedule_active,   \* _last_schedule_active: << >> for None, else << b >>
    pending_close,          \* exchange: a market close order of flatten is executing
    em_kind,                \* emergency branch taken by the running iteration
    em_start,               \* history: the mirror when the running emergency branch was entered
    em_orders,              \* ids still to cancel in the running cancel-all loop
    em_log,                 \* history: adapter calls and flag clears of the emergency
    flags_read,             \* history: what the trigger checks of this iteration read
    box_hist,               \* history: the plan and the attempts of the running BOX placement loop
    schedules,              \* schedule manager: _schedules, NotAList for a value that is no list
    clock,                  \* datetime.now(timezone.utc), in schedule time units
    fetch_ok                \* what the last fetch_schedule call returned

vars == << mode, pc, last_tick, loop_iter, mid_price, placed_buy_px_to_id,
           placed_sell_px_to_id, cached_active_orders, initialized,
           bin_center_units, reduce_mode, self_cross_skip_count, buy_iter,
           sell_iter, current_side, filled_buy_prices, filled_sell_prices,
           active_orders, cache_aliased, slides_left, submitted, open_orders, next_id, env_events,
           all_positions, current_price, losscut_triggered,
           balance_recovery_triggered, asset_losscut_triggered,
           asset_takeprofit_triggered, current_balance, initial_asset, thresholds,
           use_schedule, exit_action, position_limits, schedule_active, last_schedule_active, pending_close,
           em_kind, em_start, em_orders, em_log, flags_read, box_hist, schedules, clock, fetch_ok >>

-----------------------------------------------------------------------------
(* Configuration (environment variables read in GridEngine.__init__).      *)

Levels == 2                 \* EDGEX_GRID_LEVELS_PER_SIDE
Step == 3                   \* EDGEX_GRID_STEP_USD, in ticks
FirstOffset == 3            \* EDGEX_GRID_FIRST_OFFSET_USD, in ticks
PriceTick == 1              \* EDGEX_PRICE_TICK
ActiveSyncEvery == 3        \* EDGEX_GRID_ACTIVE_SYNC_EVERY
PositionSizeLimit == 5      \* EDGEX_POSITION_SIZE_LIMIT_BTC, in size units
PositionSizeReduceOnly == 3 \* EDGEX_POSITION_SIZE_REDUCE_ONLY_BTC
ZeroSize == 2               \* 0.0001 in size units
UnknownPerLoop == 3         \* unmanaged cancels per iteration

(* Thresholds of the monitor (module constants of edgex_sdk/ws/client.py),  *)
(* the values they have when they are configured.                           *)
Leverage == 1               \* EDGEX_LEVERAGE
LosscutPct == 5             \* EDGEX_POSITION_LOSSCUT_PERCENTAGE
TakeprofitPct == 5          \* EDGEX_POSITION_TAKE_PROFIT_PERCENTAGE
InitialBalance == 102       \* EDGEX_INITIAL_BALANCE_USD
RecoveryEnforceLevel == 2   \* EDGEX_RECOVERY_ENFORCE_LEVEL_USD
AssetLosscutPct == 4        \* EDGEX_ASSET_LOSSCUT_PERCENTAGE
AssetTakeprofitPct == 4     \* EDGEX_ASSET_TAKE_PROFIT_PERCENTAGE

(* Bounds of the explored environment.                                     *)
MinMid == 4 * Step          \* the lowest mid price is a lattice point
MaxMid == 14
MaxId == 6
MaxEvents == 1
MaxClamp == 1

None == -1
Mids == MinMid..MaxMid
Sides == {"BUY", "SELL"}
ForeignPrices == {MinMid - FirstOffset, MinMid - FirstOffset + 1}
PosSizes == {0, ZeroSize, PositionSizeLimit, 0 - PositionSizeLimit}
EntryPrice == MinMid + 1    \* entry price of the positions the stream reports
Amounts == {100 - PositionSizeLimit * EntryPrice, 100}   \* collateral amounts
Position(sz) == [openSize |-> sz, openValue |-> sz * EntryPrice]
(* position lists of a trade-event: one sub-position, or a LONG and a SHORT *)
(* sub-position of the same size                                            *)
PositionLists ==
    {<< Position(sz) >> : sz \in PosSizes}
        \cup {<< Position(PositionSizeLimit), Position(0 - PositionSizeLimit) >>}

-----------------------------------------------------------------------------
(* Small helpers.                                                           *)

Abs(x) == IF x < 0 THEN 0 - x ELSE x
Max(S) == CHOOSE x \in S : \A y \in S : y <= x
Min(S) == CHOOSE x \in S : \A y \in S : x <= y

RECURSIVE SortedDesc(_)
SortedDesc(S) == IF S = {} THEN << >> ELSE << Max(S) >> \o SortedDesc(S \ {Max(S)})

RECURSIVE SortedAsc(_)
SortedAsc(S) == IF S = {} THEN << >> ELSE << Min(S) >> \o SortedAsc(S \ {Min(S)})

Pop(m, px) == [p \in (DOMAIN m) \ {px} |-> m[p]]
Put(m, px, id) == (px :> id) @@ m
EmptyMap == [p \in {} |-> 0]
Row(id, side, px) == [id |-> id, side |-> side, price |-> px]

(* EdgeXSDKAdapter.place_order: the id of an Order built from a response    *)
(* without data.orderId (the empty string, false in a truth test).          *)
NoId == 0

-----------------------------------------------------------------------------
(* get_current_schedule: index of the first row with from <= now <= to,     *)
(* 0 for None.                                                              *)
Matching(rows, now) ==
    {i \in DOMAIN rows :
        /\ rows[i].from # None
        /\ rows[i].to # None
        /\ rows[i].from <= now
        /\ now <= rows[i].to}
GetCurrentSchedule(rows, now) ==
    IF Matching(rows, now) = {} THEN 0
    ELSE CHOOSE i \in Matching(rows, now) : \A j \in Matching(rows, now) : i <= j
IsActive(rows, now) == GetCurrentSchedule(rows, now) # 0
GetLotCoefficient(rows, now) ==
    IF GetCurrentSchedule(rows, now) = 0 THEN 0
    ELSE rows[GetCurrentSchedule(rows, now)].lot_coefficient

(* _place_order: the coefficient applied to the size (a coefficient that is *)
(* not positive is replaced by 1.0) and the quantity of the request.        *)
BaseSize == 1
AppliedLotCoefficient ==
    LET k == GetLotCoefficient(schedules.rows, clock)
    IN IF k <= 0 THEN 1 ELSE k
OrderQuantity == BaseSize * AppliedLotCoefficient

(* GridEngine._has_min_gap                                                  *)
HasMinGap(side_map, px) == \A e \in DOMAIN side_map : ~(Abs(e - px) < Step)

(* GridEngine._get_current_position_size_and_side                           *)
TotalSize ==
    LET sz(i) == IF Abs(all_positions[i].openSize) < ZeroSize THEN 0
                 ELSE all_positions[i].openSize
        RECURSIVE Sum(_)
        Sum(i) == IF i = 0 THEN 0 ELSE sz(i) + Sum(i - 1)
    IN Sum(Len(all_positions))

PosSize == IF Abs(TotalSize) < ZeroSize THEN 0 ELSE Abs(TotalSize)
PosSide == IF Abs(TotalSize) < ZeroSize THEN "NONE"
           ELSE IF TotalSize > 0 THEN "LONG" ELSE "SHORT"

-----------------------------------------------------------------------------
(* Exchange side of the adapter calls.                                      *)

(* adapter.cancel_order: on success the order is no longer OPEN.            *)
ExchangeCancel(orders, ids) == {o \in orders : o.id \notin ids}

(* adapter.place_order, maker guard in clamp mode: a BUY rests at           *)
(* min(price, best_ask - tick), a SELL at max(price, best_bid + tick);      *)
(* c is the distance the best quote forces.                                 *)
ClampedPrice(side, price, c) == IF side = "BUY" THEN price - c ELSE price + c

-----------------------------------------------------------------------------
(* GridEngine._check_and_clear_on_excessive_skips                           *)
(* Variant with a strict threshold.                                         *)
ExcessiveSkipsStrict(count) == count > Levels * 3
ExcessiveSkips(count) == count >= Levels * 3

(* GridEngine._place_order, reduce-mode skip test (is_increasing)           *)
IsIncreasing(pos_side, side) ==
    \/ pos_side = "LONG" /\ side = "BUY"
    \/ pos_side = "SHORT" /\ side = "SELL"

(* Variant of the skip test that never skips.                               *)
ReduceSkipOff(red, pos_side, side) == FALSE

ReduceSkip(red, pos_side, side) ==
    red /\ pos_side # "NONE" /\ IsIncreasing(pos_side, side)

(* GridEngine._place_order, self-cross test                                 *)
SelfCross(side, price, buys, sells) ==
    \/ side = "BUY" /\ price \in DOMAIN sells
    \/ side = "SELL" /\ price \in DOMAIN buys

(* GridEngine._place_order(side, price) with the calls it makes:            *)
(* _get_current_position_size_and_side, _cancel_position_side_orders,       *)
(* _check_and_clear_on_excessive_skips, adapter.place_order, _add_to_cache. *)
(* The BTC-absolute limit family is the configured one.                     *)
PlaceOrder(side, price, origin) ==
    LET size == PosSize
        pside == PosSide
        over == PositionSizeLimit > 0 /\ size >= PositionSizeLimit
        entering == over /\ ~reduce_mode
        tgt == IF entering /\ pside = "LONG" THEN DOMAIN placed_buy_px_to_id
               ELSE IF entering /\ pside = "SHORT" THEN DOMAIN placed_sell_px_to_id
               ELSE {}
    IN \E failed \in SUBSET tgt :
        LET done == tgt \ failed
            left == MaxEvents - env_events - Cardinality(failed)
            ids == IF pside = "LONG" THEN {placed_buy_px_to_id[p] : p \in done}
                   ELSE IF pside = "SHORT" THEN {placed_sell_px_to_id[p] : p \in done}
                   ELSE {}
            b1 == IF pside = "LONG"
                  THEN [p \in (DOMAIN placed_buy_px_to_id) \ done |-> placed_buy_px_to_id[p]]
                  ELSE placed_buy_px_to_id
            s1 == IF pside = "SHORT"
                  THEN [p \in (DOMAIN placed_sell_px_to_id) \ done |-> placed_sell_px_to_id[p]]
                  ELSE placed_sell_px_to_id
            ex1 == ExchangeCancel(open_orders, ids)
            red1 == IF over THEN TRUE ELSE reduce_mode
            red2 == IF red1 /\ PositionSizeReduceOnly > 0 /\ size < PositionSizeReduceOnly
                    THEN FALSE ELSE red1
            rec == [side |-> side, price |-> price, origin |-> origin,
                    mid |-> mid_price, pos_side |-> pside, reduce |-> red2,
                    quantity |-> OrderQuantity]
        IN /\ left >= 0
           /\ reduce_mode' = red2
           /\ IF ReduceSkip(red2, pside, side)
              THEN /\ placed_buy_px_to_id' = b1
                   /\ placed_sell_px_to_id' = s1
                   /\ open_orders' = ex1
                   /\ env_events' = MaxEvents - left
                   /\ UNCHANGED << cached_active_orders, self_cross_skip_count,
                                   submitted, next_id >>
              ELSE IF SelfCross(side, price, b1, s1)
              THEN /\ open_orders' = ex1
                   /\ env_events' = MaxEvents - left
                   /\ UNCHANGED << submitted, next_id >>
                   /\ IF ExcessiveSkips(self_cross_skip_count + 1)
                      THEN /\ placed_buy_px_to_id' = EmptyMap
                           /\ placed_sell_px_to_id' = EmptyMap
                           /\ cached_active_orders' = {}
                           /\ self_cross_skip_count' = 0
                      ELSE /\ placed_buy_px_to_id' = b1
                           /\ placed_sell_px_to_id' = s1
                           /\ self_cross_skip_count' = self_cross_skip_count + 1
                           /\ UNCHANGED cached_active_orders
              ELSE /\ submitted' = submitted \cup {rec}
                   /\ UNCHANGED self_cross_skip_count
                   /\ \/ \* adapter.place_order raised: logged, nothing recorded
                         /\ left > 0 \/ next_id > MaxId
                         /\ env_events' = MaxEvents - left + (IF next_id > MaxId THEN 0 ELSE 1)
                         /\ placed_buy_px_to_id' = b1
                         /\ placed_sell_px_to_id' = s1
                         /\ open_orders' = ex1
                         /\ UNCHANGED << cached_active_orders, next_id >>
                      \/ \* the response carries no orderId: the adapter
                         \* returns an Order whose id is the empty string
                         /\ left > 0
                         /\ env_events' = MaxEvents - left + 1
                         /\ placed_buy_px_to_id' =
                              IF side = "BUY" THEN Put(b1, price, NoId) ELSE b1
                         /\ placed_sell_px_to_id' =
                              IF side = "SELL" THEN Put(s1, price, NoId) ELSE s1
                         /\ cached_active_orders' =
                              cached_active_orders \cup {Row(NoId, side, price)}
                         /\ open_orders' = ex1
                         /\ UNCHANGED next_id
                      \/ \* the order is accepted and rests on the book
                         /\ next_id <= MaxId
                         /\ \E c \in 0..MaxClamp :
                              /\ c > 0 => left > 0
                              /\ env_events' = MaxEvents - left + (IF c > 0 THEN 1 ELSE 0)
                              /\ ClampedPrice(side, price, c) > 0
                              /\ open_orders' = ex1 \cup
                                   {Row(next_id, side, ClampedPrice(side, price, c))}
                         /\ next_id' = next_id + 1
                         /\ placed_buy_px_to_id' =
                              IF side = "BUY" THEN Put(b1, price, next_id) ELSE b1
                         /\ placed_sell_px_to_id' =
                              IF side = "SELL" THEN Put(s1, price, next_id) ELSE s1
                         /\ cached_active_orders' =
                              cached_active_orders \cup {Row(next_id, side, price)}

NoPlace == UNCHANGED << placed_buy_px_to_id, placed_sell_px_to_id,
                        cached_active_orders, reduce_mode, self_cross_skip_count,
                        submitted, open_orders, next_id, env_events >>

-----------------------------------------------------------------------------
(* GridEngine._sync_active_orders_from_cache: the maps the rebuild can      *)
(* produce from the cached rows (a later row of the same side and price     *)
(* overwrites an earlier one; the row order is the exchange's).             *)
SideRows(rows, side) == {r \in rows : r.side = side}
SyncMaps(rows, side) ==
    LET R == {r \in SideRows(rows, side) : r.id # NoId}
        P == {r.price : r \in R}
        I == {r.id : r \in R}
    IN {f \in [P -> I] : \A p \in P : Row(f[p], side, p) \in R}

-----------------------------------------------------------------------------
(* GridEngine._ensure_grid, BOX mode.                                        *)
Tol100 == PriceTick * 101       \* tol = price_tick * 1.01, times 100
Near(x, t) == Abs(x - t) * 100 <= Tol100
NearAny(x, targets) == \E t \in targets : Near(x, t)

(* Variant of the first BUY target that leaves the first offset out.        *)
BoxBuyStartNoOffset(P) == ((P - 1) \div Step) * Step

BoxBuyStart(P) == ((P - FirstOffset - 1) \div Step) * Step
BoxSellStart(P) == (((P + FirstOffset) \div Step) + 1) * Step
BoxBuyTargets(P) ==
    {px \in {BoxBuyStart(P) - i * Step : i \in 0..(Levels - 1)} : px > 0 /\ px < P}
BoxSellTargets(P) ==
    {px \in {BoxSellStart(P) + i * Step : i \in 0..(Levels - 1)} : px > P}

(* Variant of the keep rule without the near-a-target clause.               *)
BoxKeepBuysDeadBandOnly(buys, P) ==
    {px \in DOMAIN buys : px * 100 >= (P - FirstOffset) * 100 - Tol100}
BoxKeepBuys(buys, P) ==
    {px \in DOMAIN buys :
        \/ NearAny(px, BoxBuyTargets(P))
        \/ px * 100 >= (P - FirstOffset) * 100 - Tol100}
BoxKeepSells(sells, P) ==
    {px \in DOMAIN sells :
        \/ NearAny(px, BoxSellTargets(P))
        \/ px * 100 <= (P + FirstOffset) * 100 + Tol100}

BoxMissingBuys(buys, P) ==
    {px \in BoxBuyTargets(P) : ~ \E cb \in BoxKeepBuys(buys, P) : Near(cb, px)}
BoxMissingSells(sells, P) ==
    {px \in BoxSellTargets(P) : ~ \E cs \in BoxKeepSells(sells, P) : Near(cs, px)}

(* History of the BOX placement loop: the two sorted lists and the position *)
(* side read when the loop starts, and the calls of _place_order it makes.  *)
NoPlan == [buys |-> << >>, sells |-> << >>, pos_side |-> "NONE", attempts |-> << >>]
Planned(bl, sl, ps) == [buys |-> bl, sells |-> sl, pos_side |-> ps, attempts |-> << >>]
Attempted(side, px) ==
    [box_hist EXCEPT !.attempts = Append(@, [side |-> side, price |-> px])]

(* History of the emergency branch: the two maps at the moment the branch   *)
(* is entered.                                                              *)
NoStart == [buys |-> << >>, sells |-> << >>, entered |-> FALSE]
MirrorNow == [buys |-> placed_buy_px_to_id, sells |-> placed_sell_px_to_id,
              entered |-> TRUE]

Flip(side) == IF side = "BUY" THEN "SELL" ELSE "BUY"
CloseFirst == IF PosSide # "SHORT" THEN "SELL" ELSE "BUY"
NextOf(it) == IF it = << >> THEN None ELSE Head(it)
Advance(it) == IF it = << >> THEN it ELSE Tail(it)
SideMap(side) == IF side = "BUY" THEN placed_buy_px_to_id ELSE placed_sell_px_to_id
SideIter(side) == IF side = "BUY" THEN buy_iter ELSE sell_iter


-----------------------------------------------------------------------------
(* Variable groups.                                                         *)
(* GridEngine.__init__: the position-limit families.  The four values of   *)
(* position_limits are floats.  NaN stands for the float nan, which every   *)
(* comparison of Python answers False for.                                  *)
NaN == -2
EnvTexts == {"", "abc", "nan", "0", "3", "5"}

(* float(os.getenv(NAME, "0")) with "except Exception: 0.0"; "" is the text *)
(* of a variable that is set and empty.                                     *)
ParseFloat(text) ==
    CASE text = "nan" -> NaN
      [] text = "0" -> 0
      [] text = "3" -> PositionSizeReduceOnly
      [] text = "5" -> PositionSizeLimit
      [] OTHER -> 0

Gt(a, b) == a # NaN /\ b # NaN /\ a > b
Le(a, b) == a # NaN /\ b # NaN /\ a <= b
Ge(a, b) == a # NaN /\ b # NaN /\ a >= b

Limits(sl, sr, rl, rr) ==
    [size_limit |-> sl, size_reduce_only |-> sr,
     ratio_limit |-> rl, ratio_reduce_only |-> rr]
ConfiguredLimits == Limits(PositionSizeLimit, PositionSizeReduceOnly, 0, 0)

has_btc(l) == Gt(l.size_limit, 0) \/ Gt(l.size_reduce_only, 0)
has_ratio(l) == Gt(l.ratio_limit, 0) \/ Gt(l.ratio_reduce_only, 0)

(* TRUE when __init__ passes every "raise SystemExit(1)" of the validation. *)
Accepts(l) ==
    /\ ~ (has_btc(l) /\ has_ratio(l))
    /\ ~ (~ has_btc(l) /\ ~ has_ratio(l))
    /\ has_btc(l) =>
          /\ ~ (Le(l.size_limit, 0) \/ Le(l.size_reduce_only, 0))
          /\ ~ Ge(l.size_reduce_only, l.size_limit)
    /\ has_ratio(l) =>
          /\ ~ (Le(l.ratio_limit, 0) \/ Le(l.ratio_reduce_only, 0))
          /\ ~ Ge(l.ratio_reduce_only, l.ratio_limit)

(* ScheduleManager (bot/schedule_manager.py).  Times are integers: the      *)
(* parsed "from" / "to" datetimes and datetime.now(timezone.utc) on one     *)
(* axis.  A row whose "from" is None stands for an entry that               *)
(* get_current_schedule skips (a missing field or a parse error).           *)

MaxTime == 3
LotCoefficients == {1, 2}

(* The value of _schedules: a list of rows, or a JSON value that is no list *)
(* and has no len() (null, a number).                                       *)
List(rows) == [is_list |-> TRUE, rows |-> rows]
NotAList == [is_list |-> FALSE, rows |-> << >>]

ScheduleRows ==
    {[from |-> a, to |-> b, lot_coefficient |-> k] :
        a \in 0..MaxTime, b \in 0..MaxTime, k \in LotCoefficients}
ScheduleEntries ==
    {r \in ScheduleRows : r.from < r.to}
        \cup {[from |-> None, to |-> None, lot_coefficient |-> 1]}
ScheduleValues ==
    {List(<< >>)} \cup {List(<< r >>) : r \in ScheduleEntries}
        \cup {List(<< r, q >>) : r \in ScheduleEntries, q \in ScheduleEntries}
        \cup {NotAList}

(* What the GET of fetch_schedule can bring back.  kind:                    *)
(*   http_error     raise_for_status raises HTTPStatusError                 *)
(*   network_error  client.get raises                                       *)
(*   not_json       response.json() raises                                  *)
(*   not_object     the document is no JSON object, data.get raises         *)
(*   no_key         an object without "schedules"                           *)
(*   typed_missing  "schedules" is an object without the configured type    *)
(*   typed          "schedules" is an object, value = its entry of the type *)
(*   list           "schedules" is no object, value = "schedules" itself    *)
FailureKinds == {"http_error", "network_error", "not_json", "not_object"}
Responses ==
    {[kind |-> k, value |-> List(<< >>)] :
        k \in FailureKinds \cup {"no_key", "typed_missing"}}
        \cup {[kind |-> k, value |-> v] : k \in {"typed", "list"}, v \in ScheduleValues}

(* fetch_schedule past the throttle: the new _schedules and the return      *)
(* value.  _schedules is assigned before len(self._schedules) is evaluated  *)
(* for the success log line; a TypeError of len() is caught by              *)
(* "except Exception" and the call returns False.                           *)
Fetched(old, resp) ==
    CASE resp.kind \in FailureKinds -> [schedules |-> old, ok |-> FALSE]
      [] resp.kind \in {"no_key", "typed_missing"} ->
            [schedules |-> List(<< >>), ok |-> TRUE]
      [] OTHER -> [schedules |-> resp.value, ok |-> resp.value.is_list]

placeVars == << placed_buy_px_to_id, placed_sell_px_to_id, cached_active_orders,
                reduce_mode, self_cross_skip_count, submitted, open_orders, next_id,
                env_events >>
iterVars == << buy_iter, sell_iter, current_side, box_hist >>
repVars == << filled_buy_prices, filled_sell_prices, active_orders, cache_aliased >>
flagVars == << losscut_triggered, balance_recovery_triggered,
              asset_losscut_triggered, asset_takeprofit_triggered >>
assetVars == << current_balance, initial_asset >>
monVars == << all_positions, current_price, flagVars, assetVars >>
cfgVars == << thresholds, use_schedule, exit_action, position_limits >>
mgrVars == << schedules, clock, fetch_ok >>
schedVars == << schedule_active, last_schedule_active >>
emVars == << em_kind, em_start, em_orders, em_log, flags_read >>
ctlVars == << cfgVars, mgrVars, schedVars, pending_close, emVars >>

InitEngineFields ==
    /\ last_tick = "none"
    /\ loop_iter = 0
    /\ mid_price = None
    /\ placed_buy_px_to_id = EmptyMap
    /\ placed_sell_px_to_id = EmptyMap
    /\ cached_active_orders = {}
    /\ initialized = FALSE
    /\ bin_center_units = None
    /\ reduce_mode = FALSE
    /\ self_cross_skip_count = 0
    /\ buy_iter = << >>
    /\ sell_iter = << >>
    /\ current_side = "SELL"
    /\ box_hist = NoPlan
    /\ filled_buy_prices = {}
    /\ filled_sell_prices = {}
    /\ active_orders = {}
    /\ cache_aliased = FALSE
    /\ slides_left = 0
    /\ submitted = {}
    /\ open_orders = {}
    /\ next_id = 1
    /\ current_price = None
    /\ losscut_triggered = FALSE
    /\ balance_recovery_triggered = FALSE
    /\ asset_losscut_triggered = FALSE
    /\ asset_takeprofit_triggered = FALSE
    /\ initial_asset = None
    /\ last_schedule_active = << >>
    /\ pending_close = FALSE
    /\ em_kind = "none"
    /\ em_start = NoStart
    /\ em_orders = {}
    /\ em_log = << >>
    /\ clock = 0
    /\ fetch_ok = TRUE
    /\ flags_read = << >>
    /\ exit_action = "immediately"

InitFields ==
    /\ InitEngineFields
    /\ schedules = List(<< >>)

(* The engine is constructed with the configuration of this module and is   *)
(* about to enter run().                                                    *)
InitCommon ==
    /\ InitFields
    /\ pc = "loop"
    /\ env_events = 0
    /\ position_limits = ConfiguredLimits

(* Plain grid: no trigger threshold configured, EDGEX_USE_SCHEDULE=false.   *)
Init ==
    /\ InitCommon
    /\ mode \in {"BOX", "BIN"}
    /\ thresholds = FALSE
    /\ use_schedule = FALSE
    /\ schedule_active = TRUE
    /\ all_positions = << >>
    /\ current_balance = None

-----------------------------------------------------------------------------
(* GridEngine.run: top of the while loop, _periodic_clear_placed_maps.      *)
(* hourA / hourB: the 3600 s timers of the mirror and of the skip counter   *)
(* have expired.                                                            *)
TickStart ==
    /\ pc = "loop"
    /\ loop_iter' = (loop_iter + 1) % ActiveSyncEvery
    /\ submitted' = {}
    /\ \E hourA, hourB \in BOOLEAN :
        /\ env_events' = env_events + (IF hourA THEN 1 ELSE 0) + (IF hourB THEN 1 ELSE 0)
        /\ env_events' <= MaxEvents
        /\ IF hourA
           THEN /\ placed_buy_px_to_id' = EmptyMap
                /\ placed_sell_px_to_id' = EmptyMap
                /\ cached_active_orders' = {}
           ELSE UNCHANGED << placed_buy_px_to_id, placed_sell_px_to_id,
                             cached_active_orders >>
        /\ self_cross_skip_count' = IF hourB THEN 0 ELSE self_cross_skip_count
    /\ pc' = IF use_schedule THEN "gate" ELSE "chk_lc"
    /\ last_tick' = "running"
    /\ em_kind' = "none"
    /\ em_start' = NoStart
    /\ em_orders' = {}
    /\ em_log' = << >>
    /\ flags_read' = << >>
    /\ UNCHANGED << mode, mid_price, initialized, bin_center_units, reduce_mode,
                    iterVars, repVars, slides_left, open_orders, next_id,
                    monVars, cfgVars, mgrVars, schedVars, pending_close >>

-----------------------------------------------------------------------------
(* GridEngine.run: the trigger checks, in the order of the code.  Each      *)
(* check reads one accessor of the adapter; the first one that answers true *)
(* starts its emergency branch.                                             *)

(* Accessors of the adapter: each answers the latch of the ws client.  The  *)
(* take-profit accessor answers the latch the monitor raises for the        *)
(* take-profit condition, which is losscut_triggered.                       *)
IsLosscutTriggered == losscut_triggered
IsTakeprofitTriggered == losscut_triggered
IsBalanceRecoveryTriggered == balance_recovery_triggered
IsAssetLosscutTriggered == asset_losscut_triggered
IsAssetTakeprofitTriggered == asset_takeprofit_triggered

CheckNextNoBranch(flag, next) == next
CheckNext(flag, next) == IF flag THEN "em_flatten1" ELSE next

Check(at, flag, kind, next) ==
    /\ pc = at
    /\ flags_read' = Append(flags_read, flag)
    /\ pc' = CheckNext(flag, next)
    /\ em_kind' = IF flag THEN kind ELSE em_kind
    /\ em_start' = IF flag THEN MirrorNow ELSE em_start
    /\ UNCHANGED << mode, last_tick, loop_iter, mid_price, placeVars, initialized,
                    bin_center_units, iterVars, repVars, slides_left, monVars,
                    cfgVars, mgrVars, schedVars, pending_close, em_orders, em_log >>

CheckLosscut == Check("chk_lc", IsLosscutTriggered, "position_loss_cut", "chk_tp")
CheckTakeprofit == Check("chk_tp", IsTakeprofitTriggered, "position_take_profit", "chk_br")
CheckBalanceRecovery ==
    Check("chk_br", IsBalanceRecoveryTriggered, "balance_recovery", "chk_alc")
CheckAssetLosscut == Check("chk_alc", IsAssetLosscutTriggered, "asset_loss_cut", "chk_atp")
CheckAssetTakeprofit ==
    Check("chk_atp", IsAssetTakeprofitTriggered, "asset_take_profit", "price")

-----------------------------------------------------------------------------
(* GridEngine.run: price fetch (streamed price, else REST ticker).          *)
PriceFetch ==
    /\ pc = "price"
    /\ \/ /\ current_price # None
          /\ mid_price' = current_price
          /\ pc' = "refresh"
          /\ UNCHANGED << last_tick, env_events >>
       \/ /\ current_price = None
          /\ \E p \in Mids : mid_price' = p
          /\ pc' = "refresh"
          /\ UNCHANGED << last_tick, env_events >>
       \/ /\ current_price = None          \* get_ticker raised
          /\ env_events < MaxEvents
          /\ env_events' = env_events + 1
          /\ pc' = "loop"
          /\ last_tick' = "aborted"
          /\ UNCHANGED mid_price
    /\ UNCHANGED << mode, loop_iter, placed_buy_px_to_id, placed_sell_px_to_id,
                    cached_active_orders, reduce_mode, self_cross_skip_count,
                    submitted, open_orders, next_id, initialized, bin_center_units,
                    iterVars, repVars, slides_left, monVars, ctlVars >>

(* GridEngine.run: list_active_orders into the cache, then the periodic     *)
(* _sync_active_orders_from_cache.  A failed request makes the adapter       *)
(* return an empty list.                                                    *)
Refresh ==
    /\ pc = "refresh"
    /\ \E failed \in BOOLEAN :
       LET rows == IF failed THEN {} ELSE open_orders IN
        /\ failed => open_orders # {} /\ env_events < MaxEvents
        /\ env_events' = env_events + (IF failed THEN 1 ELSE 0)
        /\ cached_active_orders' = rows
        /\ IF ActiveSyncEvery > 0 /\ loop_iter % ActiveSyncEvery = 0
           THEN /\ placed_buy_px_to_id' \in SyncMaps(rows, "BUY")
                /\ placed_sell_px_to_id' \in SyncMaps(rows, "SELL")
           ELSE UNCHANGED << placed_buy_px_to_id, placed_sell_px_to_id >>
    /\ pc' = "ensure"
    /\ UNCHANGED << mode, last_tick, loop_iter, mid_price, initialized,
                    bin_center_units, reduce_mode, self_cross_skip_count,
                    iterVars, repVars, slides_left, submitted, open_orders,
                    next_id, monVars, ctlVars >>

-----------------------------------------------------------------------------
(* _ensure_grid, BOX: cancel loop over sorted(current - keep), BUY side     *)
(* first; one iteration.                                                    *)
BoxExcessBuys == (DOMAIN placed_buy_px_to_id) \ BoxKeepBuys(placed_buy_px_to_id, mid_price)
BoxExcessSells == (DOMAIN placed_sell_px_to_id) \ BoxKeepSells(placed_sell_px_to_id, mid_price)

BoxCancel ==
    /\ pc = "ensure"
    /\ mode = "BOX"
    /\ BoxExcessBuys # {} \/ BoxExcessSells # {}
    /\ \E ok \in BOOLEAN :
        /\ ~ ok => env_events < MaxEvents
        /\ env_events' = env_events + (IF ok THEN 0 ELSE 1)
        /\ IF BoxExcessBuys # {}
           THEN LET px == Min(BoxExcessBuys) IN
                /\ placed_buy_px_to_id' = Pop(placed_buy_px_to_id, px)
                /\ open_orders' = IF ok THEN ExchangeCancel(open_orders, {placed_buy_px_to_id[px]})
                                  ELSE open_orders
                /\ UNCHANGED placed_sell_px_to_id
           ELSE LET px == Min(BoxExcessSells) IN
                /\ placed_sell_px_to_id' = Pop(placed_sell_px_to_id, px)
                /\ open_orders' = IF ok THEN ExchangeCancel(open_orders, {placed_sell_px_to_id[px]})
                                  ELSE open_orders
                /\ UNCHANGED placed_buy_px_to_id
    /\ UNCHANGED << mode, pc, last_tick, loop_iter, mid_price, cached_active_orders,
                    initialized, bin_center_units, reduce_mode, self_cross_skip_count,
                    iterVars, repVars, slides_left, submitted, next_id,
                    monVars, ctlVars >>

(* _ensure_grid, BOX: missing targets and the start of the interleaved loop.*)
BoxPlan ==
    /\ pc = "ensure"
    /\ mode = "BOX"
    /\ BoxExcessBuys = {} /\ BoxExcessSells = {}
    /\ LET mb == BoxMissingBuys(placed_buy_px_to_id, mid_price)
           ms == BoxMissingSells(placed_sell_px_to_id, mid_price)
       IN IF mb = {} /\ ms = {}
          THEN /\ initialized' = TRUE
               /\ pc' = "replenish"
               /\ UNCHANGED iterVars
          ELSE /\ buy_iter' = SortedDesc(mb)
               /\ sell_iter' = SortedAsc(ms)
               /\ current_side' = CloseFirst
               /\ box_hist' = Planned(SortedDesc(mb), SortedAsc(ms), PosSide)
               /\ pc' = "box_add"
               /\ UNCHANGED initialized
    /\ UNCHANGED << mode, last_tick, loop_iter, mid_price, placeVars,
                    bin_center_units, repVars, slides_left, monVars, ctlVars >>

(* _ensure_grid, BOX: one iteration of the interleaved placement loop.      *)
BoxAdd ==
    /\ pc = "box_add"
    /\ LET cs == current_side
           px1 == NextOf(SideIter(cs))
           os == Flip(cs)
           px2 == NextOf(SideIter(os))
       IN IF px1 # None /\ HasMinGap(SideMap(cs), px1)
          THEN /\ PlaceOrder(cs, px1, "planner")
               /\ buy_iter' = IF cs = "BUY" THEN Advance(buy_iter) ELSE buy_iter
               /\ sell_iter' = IF cs = "SELL" THEN Advance(sell_iter) ELSE sell_iter
               /\ current_side' = os
               /\ box_hist' = Attempted(cs, px1)
               /\ UNCHANGED << pc, initialized >>
          ELSE IF px2 # None /\ HasMinGap(SideMap(os), px2)
          THEN /\ PlaceOrder(os, px2, "planner")
               /\ buy_iter' = Advance(buy_iter)
               /\ sell_iter' = Advance(sell_iter)
               /\ current_side' = os
               /\ box_hist' = Attempted(os, px2)
               /\ UNCHANGED << pc, initialized >>
          ELSE /\ NoPlace
               /\ buy_iter' = << >>
               /\ sell_iter' = << >>
               /\ current_side' = "SELL"
               /\ box_hist' = NoPlan
               /\ initialized' = TRUE
               /\ pc' = "replenish"
    /\ UNCHANGED << mode, last_tick, loop_iter, mid_price, bin_center_units,
                    repVars, slides_left, monVars, ctlVars >>


-----------------------------------------------------------------------------
(* _ensure_grid, BIN mode.                                                  *)

(* round(mid_price / step): Python rounds halves to the even neighbour.     *)
RoundDiv(a, b) ==
    LET q == a \div b
        r == a % b
    IN IF 2 * r < b THEN q
       ELSE IF 2 * r > b THEN q + 1
       ELSE IF q % 2 = 0 THEN q ELSE q + 1

CenterUnits == RoundDiv(mid_price, Step)
Center == CenterUnits * Step
BinBuyTargets == {Center - k * Step : k \in 1..Levels}
BinSellTargets == {Center + k * Step : k \in 1..Levels}

(* First iteration: start of the interleaved initial placement.             *)
BinInitPlan ==
    /\ pc = "ensure"
    /\ mode = "BIN"
    /\ ~ initialized
    /\ buy_iter' = SortedDesc(BinBuyTargets)
    /\ sell_iter' = SortedAsc(BinSellTargets)
    /\ current_side' = CloseFirst
    /\ UNCHANGED box_hist
    /\ pc' = "bin_init"
    /\ UNCHANGED << mode, last_tick, loop_iter, mid_price, placeVars, initialized,
                    bin_center_units, repVars, slides_left, monVars, ctlVars >>

(* One iteration of the initial placement loop (add_buys and add_sells are  *)
(* Levels minus what the iterators still hold).                             *)
BinInitAdd ==
    /\ pc = "bin_init"
    /\ LET cs == current_side
           px == NextOf(SideIter(cs))
       IN /\ IF px # None THEN PlaceOrder(cs, px, "planner") ELSE NoPlace
          /\ buy_iter' = IF cs = "BUY" THEN Advance(buy_iter) ELSE buy_iter
          /\ sell_iter' = IF cs = "SELL" THEN Advance(sell_iter) ELSE sell_iter
          /\ current_side' = Flip(cs)
          /\ UNCHANGED box_hist
    /\ IF buy_iter' = << >> /\ sell_iter' = << >>
       THEN /\ initialized' = TRUE
            /\ bin_center_units' = CenterUnits
            /\ pc' = "replenish"
       ELSE UNCHANGED << initialized, bin_center_units, pc >>
    /\ UNCHANGED << mode, last_tick, loop_iter, mid_price, repVars, slides_left,
                    monVars, ctlVars >>

(* Later iterations: unchanged centre -> refill, otherwise slide.           *)
BinPlan ==
    /\ pc = "ensure"
    /\ mode = "BIN"
    /\ initialized
    /\ LET prev_units == IF bin_center_units # None THEN bin_center_units ELSE CenterUnits
           delta_units == CenterUnits - prev_units
       IN IF delta_units = 0
          THEN /\ buy_iter' = SortedAsc(BinBuyTargets)
               /\ sell_iter' = SortedAsc(BinSellTargets)
               /\ pc' = "bin_refill"
               /\ UNCHANGED slides_left
          ELSE /\ slides_left' = Abs(delta_units)
               /\ pc' = "bin_cancel"
               /\ UNCHANGED << buy_iter, sell_iter >>
    /\ UNCHANGED << mode, last_tick, loop_iter, mid_price, placeVars, initialized,
                    bin_center_units, current_side, box_hist, repVars, monVars, ctlVars >>

(* delta_units = 0: next placement of the two refill loops (BUY loop first; *)
(* a loop stops when its side holds Levels rungs, held prices are passed).  *)
RECURSIVE SkipHeld(_, _)
SkipHeld(it, held) ==
    IF it = << >> THEN it
    ELSE IF Head(it) \in held THEN SkipHeld(Tail(it), held) ELSE it

BinRefill ==
    /\ pc = "bin_refill"
    /\ LET bi == IF Cardinality(DOMAIN placed_buy_px_to_id) >= Levels THEN << >>
                 ELSE SkipHeld(buy_iter, DOMAIN placed_buy_px_to_id)
           si == IF Cardinality(DOMAIN placed_sell_px_to_id) >= Levels THEN << >>
                 ELSE SkipHeld(sell_iter, DOMAIN placed_sell_px_to_id)
       IN IF bi # << >>
          THEN /\ PlaceOrder("BUY", Head(bi), "planner")
               /\ buy_iter' = Tail(bi)
               /\ UNCHANGED << sell_iter, pc >>
          ELSE IF si # << >>
          THEN /\ PlaceOrder("SELL", Head(si), "planner")
               /\ buy_iter' = << >>
               /\ sell_iter' = Tail(si)
               /\ UNCHANGED pc
          ELSE /\ NoPlace
               /\ buy_iter' = << >>
               /\ sell_iter' = << >>
               /\ pc' = "replenish"
    /\ UNCHANGED << mode, last_tick, loop_iter, mid_price, initialized,
                    bin_center_units, current_side, box_hist, repVars, slides_left, monVars, ctlVars >>

(* Slide, one iteration of "for _ in range(steps)" in three steps.          *)
DirectionUp == CenterUnits > bin_center_units

(* Variant that cancels the near rung of the side that slides inward.       *)
BinSlideCancelNear ==
    /\ pc = "bin_cancel"
    /\ LET inner == IF DirectionUp THEN placed_buy_px_to_id ELSE placed_sell_px_to_id
       IN IF DOMAIN inner = {}
          THEN /\ pc' = "bin_outer"
               /\ UNCHANGED << placed_buy_px_to_id, placed_sell_px_to_id,
                               open_orders, env_events >>
          ELSE LET far == IF DirectionUp THEN Max(DOMAIN inner) ELSE Min(DOMAIN inner)
               IN /\ pc' = "bin_near"
                  /\ IF DirectionUp
                     THEN /\ placed_buy_px_to_id' = Pop(placed_buy_px_to_id, far)
                          /\ UNCHANGED placed_sell_px_to_id
                     ELSE /\ placed_sell_px_to_id' = Pop(placed_sell_px_to_id, far)
                          /\ UNCHANGED placed_buy_px_to_id
                  /\ \E ok \in BOOLEAN :
                        /\ ~ ok => env_events < MaxEvents
                        /\ env_events' = env_events + (IF ok THEN 0 ELSE 1)
                        /\ open_orders' = IF ok THEN ExchangeCancel(open_orders, {inner[far]})
                                          ELSE open_orders
    /\ UNCHANGED << mode, last_tick, loop_iter, mid_price, cached_active_orders,
                    initialized, bin_center_units, reduce_mode, self_cross_skip_count,
                    iterVars, repVars, slides_left, submitted, next_id, monVars, ctlVars >>

(* cancel the far rung of the side that slides inward                       *)
BinSlideCancel ==
    /\ pc = "bin_cancel"
    /\ LET inner == IF DirectionUp THEN placed_buy_px_to_id ELSE placed_sell_px_to_id
       IN IF DOMAIN inner = {}
          THEN /\ pc' = "bin_outer"
               /\ UNCHANGED << placed_buy_px_to_id, placed_sell_px_to_id,
                               open_orders, env_events >>
          ELSE LET far == IF DirectionUp THEN Min(DOMAIN inner) ELSE Max(DOMAIN inner)
               IN /\ pc' = "bin_near"
                  /\ IF DirectionUp
                     THEN /\ placed_buy_px_to_id' = Pop(placed_buy_px_to_id, far)
                          /\ UNCHANGED placed_sell_px_to_id
                     ELSE /\ placed_sell_px_to_id' = Pop(placed_sell_px_to_id, far)
                          /\ UNCHANGED placed_buy_px_to_id
                  /\ \E ok \in BOOLEAN :
                        /\ ~ ok => env_events < MaxEvents
                        /\ env_events' = env_events + (IF ok THEN 0 ELSE 1)
                        /\ open_orders' = IF ok THEN ExchangeCancel(open_orders, {inner[far]})
                                          ELSE open_orders
    /\ UNCHANGED << mode, last_tick, loop_iter, mid_price, cached_active_orders,
                    initialized, bin_center_units, reduce_mode, self_cross_skip_count,
                    iterVars, repVars, slides_left, submitted, next_id, monVars, ctlVars >>

(* add one rung on the near side of the side that slides inward             *)
BinSlideNear ==
    /\ pc = "bin_near"
    /\ IF DirectionUp
       THEN LET near_buy == IF DOMAIN placed_buy_px_to_id # {}
                            THEN Max(DOMAIN placed_buy_px_to_id) ELSE Center - Step
                px == near_buy + Step
            IN IF px < mid_price /\ px \notin DOMAIN placed_buy_px_to_id
                  /\ HasMinGap(placed_buy_px_to_id, px)
               THEN PlaceOrder("BUY", px, "planner") ELSE NoPlace
       ELSE LET near_sell == IF DOMAIN placed_sell_px_to_id # {}
                             THEN Min(DOMAIN placed_sell_px_to_id) ELSE Center + Step
                px == near_sell - Step
            IN IF px > mid_price /\ px \notin DOMAIN placed_sell_px_to_id
                  /\ HasMinGap(placed_sell_px_to_id, px)
               THEN PlaceOrder("SELL", px, "planner") ELSE NoPlace
    /\ pc' = "bin_outer"
    /\ UNCHANGED << mode, last_tick, loop_iter, mid_price, initialized,
                    bin_center_units, iterVars, repVars, slides_left, monVars, ctlVars >>

(* add one rung outside the outermost rung of the other side                *)
BinSlideOuter ==
    /\ pc = "bin_outer"
    /\ IF DirectionUp
       THEN IF DOMAIN placed_sell_px_to_id # {}
            THEN LET px == Max(DOMAIN placed_sell_px_to_id) + Step
                 IN IF px > mid_price /\ px \notin DOMAIN placed_sell_px_to_id
                       /\ HasMinGap(placed_sell_px_to_id, px)
                    THEN PlaceOrder("SELL", px, "planner") ELSE NoPlace
            ELSE NoPlace
       ELSE IF DOMAIN placed_buy_px_to_id # {}
            THEN LET px == Min(DOMAIN placed_buy_px_to_id) - Step
                 IN IF px > 0 /\ px < mid_price /\ px \notin DOMAIN placed_buy_px_to_id
                       /\ HasMinGap(placed_buy_px_to_id, px)
                    THEN PlaceOrder("BUY", px, "planner") ELSE NoPlace
            ELSE NoPlace
    /\ slides_left' = slides_left - 1
    /\ IF slides_left = 1
       THEN /\ bin_center_units' = CenterUnits
            /\ pc' = "replenish"
       ELSE /\ pc' = "bin_cancel"
            /\ UNCHANGED bin_center_units
    /\ UNCHANGED << mode, last_tick, loop_iter, mid_price, initialized, iterVars,
                    repVars, monVars, ctlVars >>

-----------------------------------------------------------------------------
(* _replenish_if_filled.                                                    *)
(* The local name active_orders stays bound to the list object read at      *)
(* entry; _remove_from_cache and the excessive-skip clear rebind            *)
(* _cached_active_orders to a new list, _add_to_cache appends in place.     *)
Alias(rebound) ==
    /\ cache_aliased' = (cache_aliased /\ ~ rebound)
    /\ active_orders' = IF cache_aliased /\ ~ rebound
                        THEN cached_active_orders' ELSE active_orders

SkipCleared == self_cross_skip_count' = 0 /\ self_cross_skip_count > 0

FilledSide == IF filled_buy_prices # {} THEN "BUY" ELSE "SELL"

EndTick ==
    /\ pc' = "loop"
    /\ last_tick' = "ok"
    /\ mid_price' = None
    /\ filled_buy_prices' = {}
    /\ filled_sell_prices' = {}
    /\ active_orders' = {}
    /\ cache_aliased' = FALSE

(* Entry: BIN returns at once; otherwise fill detection by id difference.   *)
RepDetect ==
    /\ pc = "replenish"
    /\ IF mode = "BIN"
       THEN /\ EndTick
            /\ UNCHANGED << placed_buy_px_to_id, placed_sell_px_to_id >>
       ELSE LET active_ids == {r.id : r \in cached_active_orders} \ {NoId}
                fb == {px \in DOMAIN placed_buy_px_to_id : placed_buy_px_to_id[px] \notin active_ids}
                fs == {px \in DOMAIN placed_sell_px_to_id : placed_sell_px_to_id[px] \notin active_ids}
            IN /\ filled_buy_prices' = fb
               /\ filled_sell_prices' = fs
               /\ placed_buy_px_to_id' = [px \in (DOMAIN placed_buy_px_to_id) \ fb |-> placed_buy_px_to_id[px]]
               /\ placed_sell_px_to_id' = [px \in (DOMAIN placed_sell_px_to_id) \ fs |-> placed_sell_px_to_id[px]]
               /\ active_orders' = cached_active_orders
               /\ cache_aliased' = TRUE
               /\ pc' = IF fb # {} \/ fs # {} THEN "rep_cancel" ELSE "unmanaged"
               /\ UNCHANGED last_tick
    /\ IF mode = "BIN" THEN TRUE ELSE UNCHANGED mid_price
    /\ UNCHANGED << mode, loop_iter, cached_active_orders, initialized,
                    bin_center_units, reduce_mode, self_cross_skip_count, iterVars,
                    slides_left, submitted, open_orders, next_id, env_events,
                    monVars, ctlVars >>

(* Anchor rule, step 1: cancel the far rung of the opposite side.           *)
RepCancel ==
    /\ pc = "rep_cancel"
    /\ LET opp == IF FilledSide = "BUY" THEN placed_sell_px_to_id ELSE placed_buy_px_to_id
       IN IF DOMAIN opp = {}
          THEN /\ UNCHANGED << placed_buy_px_to_id, placed_sell_px_to_id,
                               cached_active_orders, open_orders, env_events >>
               /\ Alias(FALSE)
          ELSE LET far == IF FilledSide = "BUY" THEN Max(DOMAIN opp) ELSE Min(DOMAIN opp)
                   far_id == opp[far]
               IN /\ IF FilledSide = "BUY"
                     THEN /\ placed_sell_px_to_id' = Pop(placed_sell_px_to_id, far)
                          /\ UNCHANGED placed_buy_px_to_id
                     ELSE /\ placed_buy_px_to_id' = Pop(placed_buy_px_to_id, far)
                          /\ UNCHANGED placed_sell_px_to_id
                  /\ \E ok \in BOOLEAN :
                        IF ok
                        THEN /\ open_orders' = ExchangeCancel(open_orders, {far_id})
                             /\ cached_active_orders' = {r \in cached_active_orders : r.id # far_id}
                             /\ Alias(TRUE)
                             /\ UNCHANGED env_events
                        ELSE /\ env_events < MaxEvents
                             /\ env_events' = env_events + 1
                             /\ UNCHANGED << open_orders, cached_active_orders >>
                             /\ Alias(FALSE)
    /\ pc' = "rep_near"
    /\ UNCHANGED << mode, last_tick, loop_iter, mid_price, initialized,
                    bin_center_units, reduce_mode, self_cross_skip_count, iterVars,
                    filled_buy_prices, filled_sell_prices, slides_left, submitted,
                    next_id, monVars, ctlVars >>

(* Anchor rule, step 2: one rung on the near side of the opposite side.     *)
RepNearPrice ==
    IF FilledSide = "BUY"
    THEN (IF DOMAIN placed_sell_px_to_id # {} THEN Min(DOMAIN placed_sell_px_to_id)
          ELSE Max(filled_buy_prices) + Step) - Step
    ELSE (IF DOMAIN placed_buy_px_to_id # {} THEN Max(DOMAIN placed_buy_px_to_id)
          ELSE Min(filled_sell_prices) - Step) + Step

RepNear ==
    /\ pc = "rep_near"
    /\ LET side == Flip(FilledSide)
           px == RepNearPrice
       IN IF px \notin DOMAIN SideMap(side) /\ px > 0
          THEN PlaceOrder(side, px, "replenish")
          ELSE NoPlace
    /\ Alias(SkipCleared)
    /\ pc' = "rep_outer"
    /\ UNCHANGED << mode, last_tick, loop_iter, mid_price, initialized,
                    bin_center_units, iterVars, filled_buy_prices,
                    filled_sell_prices, slides_left, monVars, ctlVars >>

(* Anchor rule, step 3: one rung on the outer side of the filled side.      *)
RepOuterPrice ==
    IF FilledSide = "BUY"
    THEN (IF DOMAIN placed_buy_px_to_id # {} THEN Min(DOMAIN placed_buy_px_to_id)
          ELSE Min(filled_buy_prices) - Step) - Step
    ELSE (IF DOMAIN placed_sell_px_to_id # {} THEN Max(DOMAIN placed_sell_px_to_id)
          ELSE Max(filled_sell_prices) + Step) + Step

RepOuter ==
    /\ pc = "rep_outer"
    /\ LET side == FilledSide
           px == RepOuterPrice
       IN IF px \notin DOMAIN SideMap(side) /\ (side = "SELL" \/ px > 0)
          THEN PlaceOrder(side, px, "replenish")
          ELSE NoPlace
    /\ Alias(SkipCleared)
    /\ IF FilledSide = "BUY"
       THEN /\ filled_buy_prices' = {}
            /\ UNCHANGED filled_sell_prices
            /\ pc' = IF filled_sell_prices # {} THEN "rep_cancel" ELSE "unmanaged"
       ELSE /\ filled_sell_prices' = {}
            /\ UNCHANGED filled_buy_prices
            /\ pc' = "unmanaged"
    /\ UNCHANGED << mode, last_tick, loop_iter, mid_price, initialized,
                    bin_center_units, iterVars, slides_left, monVars, ctlVars >>

(* Clean-up of OPEN orders the mirror does not hold, at most                *)
(* UnknownPerLoop per tick; then the tick ends.                             *)
UnknownIds ==
    LET placed_ids == {placed_buy_px_to_id[px] : px \in DOMAIN placed_buy_px_to_id}
                      \cup {placed_sell_px_to_id[px] : px \in DOMAIN placed_sell_px_to_id}
    IN {r.id : r \in active_orders} \ placed_ids

Unmanaged ==
    /\ pc = "unmanaged"
    /\ \E chosen \in SUBSET UnknownIds :
        /\ Cardinality(chosen) = Min({UnknownPerLoop, Cardinality(UnknownIds)})
        /\ \E done \in SUBSET chosen :
            /\ env_events' = env_events + Cardinality(chosen \ done)
            /\ env_events' <= MaxEvents
            /\ open_orders' = ExchangeCancel(open_orders, done)
            /\ cached_active_orders' = {r \in cached_active_orders : r.id \notin done}
    /\ EndTick
    /\ UNCHANGED << mode, loop_iter, placed_buy_px_to_id,
                    placed_sell_px_to_id, initialized, bin_center_units, reduce_mode,
                    self_cross_skip_count, iterVars, slides_left, submitted, next_id,
                    monVars, ctlVars >>


-----------------------------------------------------------------------------
(* Environment: the exchange and the monitor thread of the ws client.       *)

(* The monitor thread runs concurrently with the controller.  Its writes    *)
(* commute with every controller step that does not read them, so they are  *)
(* taken at the controller positions whose next step reads them.            *)
PositionReadPoints == {"ensure", "box_add", "bin_init", "bin_refill", "bin_near",
                       "bin_outer", "rep_near", "rep_outer"}

(* OPEN orders leave the book (a price move fills one rung or several, or   *)
(* they are cancelled by hand).                                             *)
Fill ==
    /\ pc = "refresh"
    /\ env_events < MaxEvents
    /\ env_events' = env_events + 1
    /\ \E gone \in (SUBSET open_orders) \ {{}} : open_orders' = open_orders \ gone
    /\ UNCHANGED << mode, pc, last_tick, loop_iter, mid_price, placed_buy_px_to_id,
                    placed_sell_px_to_id, cached_active_orders, initialized,
                    bin_center_units, reduce_mode, self_cross_skip_count, iterVars,
                    repVars, slides_left, submitted, next_id, monVars, ctlVars >>

(* An order of the same account and contract that this run did not place.   *)
ForeignOrder ==
    /\ pc = "refresh"
    /\ env_events < MaxEvents
    /\ next_id <= MaxId
    /\ \E side \in Sides, px \in ForeignPrices :
        open_orders' = open_orders \cup {Row(next_id, side, px)}
    /\ next_id' = next_id + 1
    /\ env_events' = env_events + 1
    /\ UNCHANGED << mode, pc, last_tick, loop_iter, mid_price, placed_buy_px_to_id,
                    placed_sell_px_to_id, cached_active_orders, initialized,
                    bin_center_units, reduce_mode, self_cross_skip_count, iterVars,
                    repVars, slides_left, submitted, monVars, ctlVars >>

(* Client._calculate_and_log_unrealized_pnl.                                *)
LOSSCUT_PERCENTAGE == IF thresholds THEN LosscutPct ELSE None
TAKEPROFIT_PERCENTAGE == IF thresholds THEN TakeprofitPct ELSE None
INITIAL_BALANCE_USD == IF thresholds THEN InitialBalance ELSE None
BALANCE_RECOVERY_ENABLED == thresholds
ASSET_LOSSCUT_PERCENTAGE == IF thresholds THEN AssetLosscutPct ELSE 0
ASSET_TAKEPROFIT_PERCENTAGE == IF thresholds THEN AssetTakeprofitPct ELSE 0

ValidIdx(pos) == {i \in 1..Len(pos) : ~ (Abs(pos[i].openSize) < ZeroSize)}

(* (current_price - entry_price) * abs_size with entry_price =              *)
(* abs(open_value / size), and entry_price * abs_size                       *)
PositionPnl(p, price) ==
    IF p.openSize > 0 THEN price * Abs(p.openSize) - Abs(p.openValue)
    ELSE Abs(p.openValue) - price * Abs(p.openSize)
PositionValue(p) == Abs(p.openValue)

RECURSIVE TotalPnl(_, _, _)
TotalPnl(pos, price, i) ==
    IF i = 0 THEN 0
    ELSE (IF i \in ValidIdx(pos) THEN PositionPnl(pos[i], price) ELSE 0)
         + TotalPnl(pos, price, i - 1)

RECURSIVE TotalValue(_, _)
TotalValue(pos, i) ==
    IF i = 0 THEN 0
    ELSE (IF i \in ValidIdx(pos) THEN PositionValue(pos[i]) ELSE 0) + TotalValue(pos, i - 1)

(* No valid position: the position latches are reset, the asset latches are *)
(* left alone.                                                              *)
FlatResetAll(f) == [f EXCEPT !.lc = FALSE, !.br = FALSE, !.alc = FALSE, !.atp = FALSE]
FlatReset(f) == [f EXCEPT !.lc = FALSE, !.br = FALSE]

Flags == [lc |-> losscut_triggered, br |-> balance_recovery_triggered,
          alc |-> asset_losscut_triggered, atp |-> asset_takeprofit_triggered,
          ia |-> initial_asset]

(* "Record initial asset on first calculation": a set value is kept.        *)
RecordInitialAlways(ia, bal, asset_on) == IF asset_on THEN bal ELSE ia
RecordInitial(ia, bal, asset_on) == IF asset_on /\ ia = None THEN bal ELSE ia

Calc(pos, price, bal, f) ==
    IF pos = << >> \/ price = None THEN f
    ELSE IF ValidIdx(pos) = {} THEN FlatReset(f)
    ELSE LET pnl == TotalPnl(pos, price, Len(pos))
             value == TotalValue(pos, Len(pos))
             pct100 == IF value > 0 THEN pnl * 100 * Leverage ELSE 0
             den == IF value > 0 THEN value ELSE 1
             lc1 == f.lc \/ (/\ LOSSCUT_PERCENTAGE # None
                             /\ pct100 <= (0 - Abs(LOSSCUT_PERCENTAGE)) * den)
             lc2 == lc1 \/ (/\ TAKEPROFIT_PERCENTAGE # None
                            /\ pct100 >= Abs(TAKEPROFIT_PERCENTAGE) * den)
             br == f.br \/ (/\ BALANCE_RECOVERY_ENABLED
                            /\ INITIAL_BALANCE_USD # None
                            /\ bal # None
                            /\ INITIAL_BALANCE_USD - bal >= RecoveryEnforceLevel
                            /\ bal + pnl >= INITIAL_BALANCE_USD)
             asset_on == /\ bal # None
                         /\ (ASSET_LOSSCUT_PERCENTAGE > 0 \/ ASSET_TAKEPROFIT_PERCENTAGE > 0)
             ia == RecordInitial(f.ia, bal, asset_on)
             rated == asset_on /\ ia # None /\ ia > 0
             chg100 == (bal + pnl - ia) * 100
             alc == f.alc \/ (/\ rated
                              /\ ASSET_LOSSCUT_PERCENTAGE > 0
                              /\ chg100 <= (0 - Abs(ASSET_LOSSCUT_PERCENTAGE)) * ia)
             atp == f.atp \/ (/\ rated
                              /\ ASSET_TAKEPROFIT_PERCENTAGE > 0
                              /\ chg100 >= Abs(ASSET_TAKEPROFIT_PERCENTAGE) * ia)
         IN [lc |-> lc2, br |-> br, alc |-> alc, atp |-> atp, ia |-> ia]

SetFlags(f) ==
    /\ losscut_triggered' = f.lc
    /\ balance_recovery_triggered' = f.br
    /\ asset_losscut_triggered' = f.alc
    /\ asset_takeprofit_triggered' = f.atp
    /\ initial_asset' = f.ia

(* trade_event_handler, collateral part: account.amount plus the value of   *)
(* the first position for a LONG, minus it for a SHORT.                     *)
PositionAdjustment(pos) ==
    IF pos = << >> THEN 0
    ELSE IF Abs(pos[1].openSize) < ZeroSize THEN 0
    ELSE IF pos[1].openSize > 0 THEN Abs(pos[1].openValue)
    ELSE 0 - Abs(pos[1].openValue)

NeedsBalanceTracking ==
    BALANCE_RECOVERY_ENABLED \/ ASSET_LOSSCUT_PERCENTAGE > 0 \/ ASSET_TAKEPROFIT_PERCENTAGE > 0

(* Controller positions whose next step reads or writes the latches, and    *)
(* those whose next step is a flatten call.                                 *)
FlagPoints == {"chk_lc", "chk_tp", "chk_br", "chk_alc", "chk_atp", "em_clear", "em_rewrite"}
FlattenPoints == {"em_flatten1", "em_flatten2", "sx_close"}
MonitorPoints ==
    PositionReadPoints \cup (IF thresholds THEN FlagPoints \cup FlattenPoints ELSE {})

(* trade_event_handler(position list, collateral amount): a non-empty       *)
(* position list replaces all_positions, a collateral amount becomes        *)
(* current_balance, and the latches are recomputed if the message carried   *)
(* positions.  has_pos = FALSE: no position list; amt = None: no collateral.*)
TradeHandler(has_pos, list, amt) ==
    LET pos == IF has_pos THEN list ELSE all_positions
        bal == IF amt # None /\ NeedsBalanceTracking
               THEN amt + PositionAdjustment(pos) ELSE current_balance
    IN /\ all_positions' = pos
       /\ current_balance' = bal
       /\ IF has_pos THEN SetFlags(Calc(pos, current_price, bal, Flags))
          ELSE UNCHANGED << flagVars, initial_asset >>

TradeEvent ==
    /\ pc \in MonitorPoints
    /\ env_events < MaxEvents
    /\ env_events' = env_events + 1
    /\ \E has_pos \in BOOLEAN, list \in PositionLists, amt \in Amounts \cup {None} :
        /\ has_pos \/ (amt # None /\ list = << Position(0) >>)
        /\ NeedsBalanceTracking \/ amt = None
        /\ TradeHandler(has_pos, list, amt)
        /\ all_positions' # all_positions \/ current_balance' # current_balance
    /\ UNCHANGED << mode, pc, last_tick, loop_iter, mid_price, placed_buy_px_to_id,
                    placed_sell_px_to_id, cached_active_orders, reduce_mode,
                    self_cross_skip_count, submitted, open_orders, next_id,
                    initialized, bin_center_units, iterVars, repVars, slides_left,
                    current_price, ctlVars >>

(* quote_event_handler: the ticker's lastPrice becomes current_price and    *)
(* the latches are recomputed.  Tickers arrive all the time; the ones that  *)
(* land between two latch reads of one iteration are counted as events.     *)
TickerPoints == {"price"} \cup (IF thresholds THEN FlagPoints ELSE {})

TickerEvent ==
    /\ pc \in TickerPoints
    /\ IF pc = "price" THEN UNCHANGED env_events
       ELSE env_events < MaxEvents /\ env_events' = env_events + 1
    /\ \E p \in Mids :
        /\ current_price' = p
        /\ SetFlags(Calc(all_positions, p, current_balance, Flags))
    /\ UNCHANGED << mode, pc, last_tick, loop_iter, mid_price, placed_buy_px_to_id,
                    placed_sell_px_to_id, cached_active_orders, reduce_mode,
                    self_cross_skip_count, submitted, open_orders, next_id,
                    initialized, bin_center_units, iterVars, repVars, slides_left,
                    all_positions, current_balance, ctlVars >>

Next ==
    \/ TickStart
    \/ CheckLosscut
    \/ CheckTakeprofit
    \/ CheckBalanceRecovery
    \/ CheckAssetLosscut
    \/ CheckAssetTakeprofit
    \/ PriceFetch
    \/ Refresh
    \/ BoxCancel
    \/ BoxPlan
    \/ BoxAdd
    \/ BinInitPlan
    \/ BinInitAdd
    \/ BinPlan
    \/ BinRefill
    \/ BinSlideCancel
    \/ BinSlideNear
    \/ BinSlideOuter
    \/ RepDetect
    \/ RepCancel
    \/ RepNear
    \/ RepOuter
    \/ Unmanaged
    \/ Fill
    \/ ForeignOrder
    \/ TradeEvent
    \/ TickerEvent

Spec == Init /\ [][Next]_vars

-----------------------------------------------------------------------------
(* adapter.close_position_from_websocket ("flatten"): a market order that   *)
(* closes the net position the stream reports; answers whether an order was *)
(* submitted.                                                               *)
Flatten(raised) ==
    pending_close' = IF raised THEN pending_close ELSE (pending_close \/ PosSide # "NONE")

(* The market close has executed: the stream reports the flat position, and *)
(* possibly the collateral.                                                 *)
PositionClosed ==
    /\ pending_close
    /\ pc \in MonitorPoints
    /\ pending_close' = FALSE
    /\ \E amt \in Amounts \cup {None} : TradeHandler(TRUE, << Position(0) >>, amt)
    /\ UNCHANGED << mode, pc, last_tick, loop_iter, mid_price, placeVars,
                    initialized, bin_center_units, iterVars, repVars, slides_left,
                    current_price, cfgVars, mgrVars, schedVars, emVars >>

-----------------------------------------------------------------------------
(* GridEngine.run: the emergency branches.  The five branches are the same  *)
(* code except for the latch that step 4 clears and, for the asset          *)
(* branches, the rewrite of initial_asset.                                  *)
AssetKinds == {"asset_loss_cut", "asset_take_profit"}

(* The step that follows step `at` of the branch for `kind`.                *)
EmNextClearFirst(at, kind) ==
    IF at = "em_flatten1" THEN "em_clear"
    ELSE IF at = "em_clear" THEN (IF kind \in AssetKinds THEN "em_rewrite" ELSE "em_list")
    ELSE IF at = "em_rewrite" THEN "em_list"
    ELSE IF at = "em_list" THEN "em_cancel"
    ELSE IF at = "em_cancel" THEN "em_flatten2"
    ELSE "em_cooldown"
EmNext(at, kind) ==
    IF at = "em_flatten1" THEN "em_list"
    ELSE IF at = "em_list" THEN "em_cancel"
    ELSE IF at = "em_cancel" THEN "em_flatten2"
    ELSE IF at = "em_flatten2" THEN "em_clear"
    ELSE IF at = "em_clear" THEN (IF kind \in AssetKinds THEN "em_rewrite" ELSE "em_cooldown")
    ELSE "em_cooldown"

emFrame == << mode, loop_iter, mid_price, initialized, bin_center_units, reduce_mode,
             self_cross_skip_count, iterVars, repVars, slides_left, submitted,
             next_id, cfgVars, mgrVars, schedVars, em_kind, em_start, flags_read >>

(* STEP 1 and STEP 3: flatten.  An exception leaves the branch through the  *)
(* outer handler: the iteration ends, nothing is cleared.                   *)
EmFlatten(at, next) ==
    /\ pc = at
    /\ em_log' = Append(em_log, "flatten")
    /\ \E raised \in BOOLEAN :
        /\ raised => env_events < MaxEvents
        /\ env_events' = env_events + (IF raised THEN 1 ELSE 0)
        /\ Flatten(raised)
        /\ IF raised THEN pc' = "loop" /\ last_tick' = "aborted"
           ELSE pc' = next /\ UNCHANGED last_tick
    /\ UNCHANGED << emFrame, placed_buy_px_to_id, placed_sell_px_to_id,
                    cached_active_orders, open_orders, monVars, em_orders >>

EmFlatten1 == EmFlatten("em_flatten1", EmNext("em_flatten1", em_kind))
EmFlatten2 == EmFlatten("em_flatten2", EmNext("em_flatten2", em_kind))

(* STEP 2: list_active_orders (an empty list when the request fails) ...    *)
ListOpen(at, next) ==
    /\ pc = at
    /\ \E failed \in BOOLEAN :
        /\ failed => open_orders # {} /\ env_events < MaxEvents
        /\ env_events' = env_events + (IF failed THEN 1 ELSE 0)
        /\ em_orders' = IF failed THEN {} ELSE {r.id : r \in open_orders}
    /\ pc' = next
    /\ UNCHANGED << emFrame, last_tick, placed_buy_px_to_id, placed_sell_px_to_id,
                    cached_active_orders, open_orders, monVars, pending_close, em_log >>

EmList == ListOpen("em_list", EmNext("em_list", em_kind))

(* ... one cancel per listed order, failures ignored, then the mirror and   *)
(* the cache are cleared.                                                   *)
CancelAllKeepMirror(at, next, init_after) ==
    /\ pc = at
    /\ IF em_orders # {}
       THEN LET id == Min(em_orders) IN
            /\ em_orders' = em_orders \ {id}
            /\ em_log' = Append(em_log, "cancel")
            /\ \E ok \in BOOLEAN :
                /\ ~ ok => env_events < MaxEvents
                /\ env_events' = env_events + (IF ok THEN 0 ELSE 1)
                /\ open_orders' = IF ok THEN ExchangeCancel(open_orders, {id})
                                  ELSE open_orders
            /\ UNCHANGED << pc, placed_buy_px_to_id, placed_sell_px_to_id,
                            cached_active_orders, initialized >>
       ELSE /\ UNCHANGED << placed_buy_px_to_id, placed_sell_px_to_id >>
            /\ cached_active_orders' = {}
            /\ initialized' = init_after
            /\ pc' = next
            /\ UNCHANGED << em_orders, em_log, open_orders, env_events >>
    /\ UNCHANGED << mode, loop_iter, mid_price, bin_center_units, reduce_mode,
                    self_cross_skip_count, iterVars, repVars, slides_left, submitted,
                    next_id, cfgVars, mgrVars, schedVars, em_kind, em_start, flags_read, last_tick,
                    monVars, pending_close >>
CancelAll(at, next, init_after) ==
    /\ pc = at
    /\ IF em_orders # {}
       THEN LET id == Min(em_orders) IN
            /\ em_orders' = em_orders \ {id}
            /\ em_log' = Append(em_log, "cancel")
            /\ \E ok \in BOOLEAN :
                /\ ~ ok => env_events < MaxEvents
                /\ env_events' = env_events + (IF ok THEN 0 ELSE 1)
                /\ open_orders' = IF ok THEN ExchangeCancel(open_orders, {id})
                                  ELSE open_orders
            /\ UNCHANGED << pc, placed_buy_px_to_id, placed_sell_px_to_id,
                            cached_active_orders, initialized >>
       ELSE /\ placed_buy_px_to_id' = EmptyMap
            /\ placed_sell_px_to_id' = EmptyMap
            /\ cached_active_orders' = {}
            /\ initialized' = init_after
            /\ pc' = next
            /\ UNCHANGED << em_orders, em_log, open_orders, env_events >>
    /\ UNCHANGED << mode, loop_iter, mid_price, bin_center_units, reduce_mode,
                    self_cross_skip_count, iterVars, repVars, slides_left, submitted,
                    next_id, cfgVars, mgrVars, schedVars, em_kind, em_start, flags_read, last_tick,
                    monVars, pending_close >>

EmCancel == CancelAll("em_cancel", EmNext("em_cancel", em_kind), initialized)

(* STEP 4: the latch of the branch is cleared on the ws client ...          *)
ClearedFlags(kind, f) ==
    IF kind \in {"position_loss_cut", "position_take_profit"} THEN [f EXCEPT !.lc = FALSE]
    ELSE IF kind = "balance_recovery" THEN [f EXCEPT !.br = FALSE]
    ELSE IF kind = "asset_loss_cut" THEN [f EXCEPT !.alc = FALSE]
    ELSE [f EXCEPT !.atp = FALSE]

EmClear ==
    /\ pc = "em_clear"
    /\ SetFlags(ClearedFlags(em_kind, Flags))
    /\ em_log' = Append(em_log, "clear")
    /\ pc' = EmNext("em_clear", em_kind)
    /\ UNCHANGED << emFrame, last_tick, placed_buy_px_to_id, placed_sell_px_to_id,
                    cached_active_orders, open_orders, env_events, all_positions,
                    current_price, current_balance, pending_close, em_orders >>

(* ... and, in the asset branches, initial_asset becomes current_balance.   *)
EmRewrite ==
    /\ pc = "em_rewrite"
    /\ initial_asset' = IF current_balance # None THEN current_balance ELSE initial_asset
    /\ pc' = EmNext("em_rewrite", em_kind)
    /\ UNCHANGED << emFrame, last_tick, placed_buy_px_to_id, placed_sell_px_to_id,
                    cached_active_orders, open_orders, env_events, all_positions,
                    current_price, flagVars, current_balance, pending_close,
                    em_orders, em_log >>

(* STEP 5: cooldown sleep, then the next iteration.                         *)
EmCooldown ==
    /\ pc = "em_cooldown"
    /\ em_log' = Append(em_log, "cooldown")
    /\ pc' = "loop"
    /\ last_tick' = "emergency"
    /\ UNCHANGED << emFrame, placed_buy_px_to_id, placed_sell_px_to_id,
                    cached_active_orders, open_orders, env_events, monVars,
                    pending_close, em_orders >>

-----------------------------------------------------------------------------
(* GridEngine.run: schedule gate, and _handle_schedule_exit with            *)
(* EDGEX_OUT_OF_SCHEDULE_ACTION=immediately.                                *)
(* Gate without the exit procedure.                                         *)
GateNoExit ==
    /\ pc = "gate"
    /\ last_schedule_active' = << schedule_active >>
    /\ IF schedule_active THEN pc' = "chk_lc" /\ UNCHANGED last_tick
       ELSE pc' = "loop" /\ last_tick' = "idle"
    /\ UNCHANGED << mode, loop_iter, mid_price, placeVars, initialized,
                    bin_center_units, iterVars, repVars, slides_left, monVars,
                    cfgVars, mgrVars, schedule_active, pending_close, emVars >>
Gate ==
    /\ pc = "gate"
    /\ IF last_schedule_active # << >> /\ last_schedule_active[1] /\ ~ schedule_active
       THEN /\ pc' = "sx_list"
            /\ UNCHANGED << last_schedule_active, last_tick >>
       ELSE /\ last_schedule_active' = << schedule_active >>
            /\ IF schedule_active THEN pc' = "chk_lc" /\ UNCHANGED last_tick
               ELSE pc' = "loop" /\ last_tick' = "idle"
    /\ UNCHANGED << mode, loop_iter, mid_price, placeVars, initialized,
                    bin_center_units, iterVars, repVars, slides_left, monVars,
                    cfgVars, mgrVars, schedule_active, pending_close, emVars >>

SxList == ListOpen("sx_list", "sx_cancel")
(* The branch on EDGEX_OUT_OF_SCHEDULE_ACTION after the mirror is cleared.   *)
SxAfterCancel ==
    IF exit_action = "immediately" THEN "sx_close"
    ELSE IF exit_action = "nothing" THEN "sx_done"
    ELSE "sx_limit"
SxCancel == CancelAll("sx_cancel", SxAfterCancel, FALSE)

(* flatten, any exception is logged; back in run(): _last_schedule_active   *)
(* becomes False and the iteration ends.                                    *)
SxClose ==
    /\ pc = "sx_close"
    /\ em_log' = Append(em_log, "flatten")
    /\ \E raised \in BOOLEAN :
        /\ raised => env_events < MaxEvents
        /\ env_events' = env_events + (IF raised THEN 1 ELSE 0)
        /\ Flatten(raised)
    /\ last_schedule_active' = << FALSE >>
    /\ pc' = "loop"
    /\ last_tick' = "idle"
    /\ UNCHANGED << mode, loop_iter, mid_price, initialized, bin_center_units,
                    reduce_mode, self_cross_skip_count, iterVars, repVars, slides_left,
                    submitted, next_id, cfgVars, mgrVars, schedule_active, em_kind, em_start, flags_read,
                    placed_buy_px_to_id, placed_sell_px_to_id, cached_active_orders,
                    open_orders, monVars, em_orders >>

(* _handle_schedule_exit has returned to run(): _last_schedule_active      *)
(* becomes False and the iteration ends.                                    *)
SxDone ==
    /\ pc = "sx_done"
    /\ last_schedule_active' = << FALSE >>
    /\ pc' = "loop"
    /\ last_tick' = "idle"
    /\ UNCHANGED << mode, loop_iter, mid_price, placeVars, initialized,
                    bin_center_units, iterVars, repVars, slides_left, monVars,
                    cfgVars, mgrVars, schedule_active, pending_close, emVars >>

(* _close_position_with_limit_then_market up to the 60 s wait.  The close   *)
(* order is a GTC limit CloseOffset away from the mid on the side that      *)
(* favours the bot; em_orders holds its id during the wait.  A failure of   *)
(* get_ticker leaves the procedure through the handler of                   *)
(* _handle_schedule_exit; a rejected order is followed by flatten at once.  *)
CloseOffset == 5
CloseSide == IF TotalSize > 0 THEN "SELL" ELSE "BUY"
LimitPriceAtMid(mid) == mid
LimitPrice(mid) == IF CloseSide = "SELL" THEN mid + CloseOffset ELSE mid - CloseOffset
CloseRequest(mid) ==
    [side |-> CloseSide, price |-> LimitPrice(mid), origin |-> "exit",
     mid |-> mid, pos_side |-> PosSide, reduce |-> reduce_mode,
     qty |-> Abs(TotalSize), tif |-> "GTC"]

SxLimit ==
    /\ pc = "sx_limit"
    /\ IF all_positions = << >> \/ Abs(TotalSize) < ZeroSize
       THEN /\ pc' = "sx_done"
            /\ UNCHANGED << submitted, open_orders, next_id, env_events,
                            pending_close, em_orders, em_log >>
       ELSE \/ \* current_price is None and get_ticker raised
               /\ current_price = None
               /\ env_events < MaxEvents
               /\ env_events' = env_events + 1
               /\ pc' = "sx_done"
               /\ UNCHANGED << submitted, open_orders, next_id, pending_close,
                               em_orders, em_log >>
            \/ \E mid \in (IF current_price = None THEN Mids ELSE {current_price}) :
               /\ submitted' = submitted \cup {CloseRequest(mid)}
               /\ \/ \* place_order raised: flatten, return
                     /\ env_events < MaxEvents \/ next_id > MaxId
                     /\ env_events' = env_events + (IF next_id > MaxId THEN 0 ELSE 1)
                     /\ em_log' = Append(Append(em_log, "place_close"), "flatten")
                     /\ \E raised \in BOOLEAN :
                          /\ raised => env_events' < MaxEvents
                          /\ Flatten(raised)
                     /\ pc' = "sx_done"
                     /\ UNCHANGED << open_orders, next_id, em_orders >>
                  \/ \* the order rests on the book
                     /\ next_id <= MaxId
                     /\ open_orders' = open_orders \cup
                                          {Row(next_id, CloseSide, LimitPrice(mid))}
                     /\ next_id' = next_id + 1
                     /\ em_orders' = {next_id}
                     /\ em_log' = Append(em_log, "place_close")
                     /\ pc' = "sx_check"
                     /\ UNCHANGED << env_events, pending_close >>
    /\ UNCHANGED << mode, last_tick, loop_iter, mid_price, placed_buy_px_to_id,
                    placed_sell_px_to_id, cached_active_orders, reduce_mode,
                    self_cross_skip_count, initialized, bin_center_units, iterVars,
                    repVars, slides_left, monVars, cfgVars, mgrVars, schedVars,
                    em_kind, em_start, flags_read >>

(* During the wait the close order fills: it leaves the book and the stream *)
(* reports the flat position.                                               *)
LimitFilled ==
    /\ pc = "sx_check"
    /\ env_events < MaxEvents
    /\ env_events' = env_events + 1
    /\ \E o \in open_orders :
        /\ o.id \in em_orders
        /\ open_orders' = open_orders \ {o}
    /\ TradeHandler(TRUE, << Position(0) >>, None)
    /\ UNCHANGED << mode, pc, last_tick, loop_iter, mid_price, placed_buy_px_to_id,
                    placed_sell_px_to_id, cached_active_orders, reduce_mode,
                    self_cross_skip_count, submitted, next_id, initialized,
                    bin_center_units, iterVars, repVars, slides_left,
                    current_price, ctlVars >>

(* After the wait: list_active_orders (an empty list when the request       *)
(* fails) and the test whether the id of the close order is in it.          *)
StillActive(rows) == \E r \in rows : r.id \in em_orders
SxCheck ==
    /\ pc = "sx_check"
    /\ \E failed \in BOOLEAN :
        /\ failed => open_orders # {} /\ env_events < MaxEvents
        /\ env_events' = env_events + (IF failed THEN 1 ELSE 0)
        /\ em_log' = Append(em_log, IF StillActive(IF failed THEN {} ELSE open_orders)
                                    THEN "listed" ELSE "not_listed")
        /\ pc' = IF StillActive(IF failed THEN {} ELSE open_orders)
                 THEN "sx_fallback" ELSE "sx_done"
    /\ UNCHANGED << emFrame, last_tick, placed_buy_px_to_id, placed_sell_px_to_id,
                    cached_active_orders, open_orders, monVars, pending_close,
                    em_orders >>

(* The close order is still open: cancel it, any exception ignored; the     *)
(* flatten step follows.                                                    *)
SxFallback ==
    /\ pc = "sx_fallback"
    /\ em_log' = Append(em_log, "cancel")
    /\ \E ok \in BOOLEAN :
        /\ ~ ok => env_events < MaxEvents
        /\ env_events' = env_events + (IF ok THEN 0 ELSE 1)
        /\ open_orders' = IF ok THEN ExchangeCancel(open_orders, em_orders)
                          ELSE open_orders
    /\ pc' = "sx_close"
    /\ UNCHANGED << emFrame, last_tick, placed_buy_px_to_id, placed_sell_px_to_id,
                    cached_active_orders, monVars, pending_close, em_orders >>

(* The schedule reaches the start or the end of an interval.                *)
ScheduleFlip ==
    /\ pc = "gate"
    /\ env_events < MaxEvents
    /\ env_events' = env_events + 1
    /\ schedule_active' = ~ schedule_active
    /\ UNCHANGED << mode, pc, last_tick, loop_iter, mid_price, placed_buy_px_to_id,
                    placed_sell_px_to_id, cached_active_orders, reduce_mode,
                    self_cross_skip_count, submitted, open_orders, next_id,
                    initialized, bin_center_units, iterVars, repVars, slides_left,
                    monVars, cfgVars, mgrVars, last_schedule_active, pending_close, emVars >>

-----------------------------------------------------------------------------
(* Schedule manager on its own: fetches, the passing of time and the        *)
(* is_active calls of run().                                                *)

engineVars == << mode, pc, last_tick, loop_iter, mid_price, initialized,
                 bin_center_units, slides_left, placeVars, iterVars, repVars,
                 monVars, cfgVars, last_schedule_active, pending_close, emVars >>

(* ScheduleManager.fetch_schedule.  due = FALSE: the previous successful    *)
(* fetch is less than FETCH_INTERVAL_SEC old, the call returns True at once. *)
FetchSchedule ==
    /\ \E due \in BOOLEAN, resp \in Responses :
        IF due
        THEN /\ schedules' = Fetched(schedules, resp).schedules
             /\ fetch_ok' = Fetched(schedules, resp).ok
        ELSE /\ fetch_ok' = TRUE
             /\ UNCHANGED schedules
    /\ UNCHANGED << engineVars, clock, schedule_active >>

(* ScheduleManager.is_active, called by run() after the fetch.  Iterating   *)
(* a _schedules that is no list raises TypeError: nothing is answered.      *)
IsActiveCall ==
    /\ schedule_active' = IF schedules.is_list
                          THEN IsActive(schedules.rows, clock)
                          ELSE schedule_active
    /\ UNCHANGED << engineVars, schedules, clock, fetch_ok >>

ClockTick ==
    /\ clock < MaxTime
    /\ clock' = clock + 1
    /\ UNCHANGED << engineVars, schedules, fetch_ok, schedule_active >>

InitS ==
    /\ InitCommon
    /\ mode = "BOX"
    /\ thresholds = FALSE
    /\ use_schedule = TRUE
    /\ schedule_active = FALSE
    /\ all_positions = << >>
    /\ current_balance = None

NextS == FetchSchedule \/ IsActiveCall \/ ClockTick

SpecS == InitS /\ [][NextS]_vars

-----------------------------------------------------------------------------
(* Construction: GridEngine.__init__ reads the four position-limit          *)
(* variables from the environment and validates them; run() follows an      *)
(* accepted configuration.  The exchange is quiet: no failure, fill or      *)
(* stream event other than the ticker read by the price step.               *)

InitC ==
    /\ InitFields
    /\ pc = "init"
    /\ env_events = MaxEvents
    /\ \E sl, sr, rl, rr \in EnvTexts :
          position_limits = Limits(ParseFloat(sl), ParseFloat(sr),
                                   ParseFloat(rl), ParseFloat(rr))
    /\ mode \in {"BOX", "BIN"}
    /\ thresholds = FALSE
    /\ use_schedule = FALSE
    /\ schedule_active = TRUE
    /\ all_positions = << >>
    /\ current_balance = None

(* The validation of __init__: "exit" is raise SystemExit(1).               *)
Construct ==
    /\ pc = "init"
    /\ pc' = IF Accepts(position_limits) THEN "loop" ELSE "exit"
    /\ UNCHANGED << mode, last_tick, loop_iter, mid_price, initialized,
                    bin_center_units, slides_left, placeVars, iterVars, repVars,
                    monVars, ctlVars >>

(* The controller task of run() and the ticker stream.                      *)
NextC ==
    \/ Construct
    \/ TickStart
    \/ CheckLosscut
    \/ CheckTakeprofit
    \/ CheckBalanceRecovery
    \/ CheckAssetLosscut
    \/ CheckAssetTakeprofit
    \/ PriceFetch
    \/ Refresh
    \/ BoxCancel
    \/ BoxPlan
    \/ BoxAdd
    \/ BinInitPlan
    \/ BinInitAdd
    \/ BinPlan
    \/ BinRefill
    \/ BinSlideCancel
    \/ BinSlideNear
    \/ BinSlideOuter
    \/ RepDetect
    \/ Unmanaged
    \/ TickerEvent

SpecC == InitC /\ [][NextC]_vars

-----------------------------------------------------------------------------
(* Schedule exit on its own.  The engine has completed a first BOX tick at  *)
(* mid m with a flat position (ids in the order of the interleaved          *)
(* placement, SELL first), the schedule was active at that tick's gate and  *)
(* has ended since; the next iteration has just begun.  The stream has      *)
(* reported any of the position lists and possibly a price.                 *)
ExitActions == {"nothing", "immediately", "auto"}
RestingBuys(m) ==
    [px \in BoxBuyTargets(m) |-> 2 * ((BoxBuyStart(m) - px) \div Step + 1)]
RestingSells(m) ==
    [px \in BoxSellTargets(m) |-> 2 * ((px - BoxSellStart(m)) \div Step + 1) - 1]
RestingRows(m) ==
    {Row(RestingBuys(m)[px], "BUY", px) : px \in BoxBuyTargets(m)}
        \cup {Row(RestingSells(m)[px], "SELL", px) : px \in BoxSellTargets(m)}

InitX ==
    /\ mode = "BOX"
    /\ pc = "gate"
    /\ last_tick = "running"
    /\ loop_iter = 2 % ActiveSyncEvery
    /\ \E m \in Mids :
        /\ mid_price = m
        /\ placed_buy_px_to_id = RestingBuys(m)
        /\ placed_sell_px_to_id = RestingSells(m)
        /\ cached_active_orders = RestingRows(m)
        /\ open_orders = RestingRows(m)
    /\ initialized = TRUE
    /\ bin_center_units = None
    /\ reduce_mode = FALSE
    /\ self_cross_skip_count = 0
    /\ buy_iter = << >>
    /\ sell_iter = << >>
    /\ current_side = "SELL"
    /\ box_hist = NoPlan
    /\ filled_buy_prices = {}
    /\ filled_sell_prices = {}
    /\ active_orders = {}
    /\ cache_aliased = FALSE
    /\ slides_left = 0
    /\ submitted = {}
    /\ next_id = 2 * Levels + 1
    /\ env_events = 0
    /\ all_positions \in PositionLists \cup {<< >>}
    /\ current_price \in Mids \cup {None}
    /\ losscut_triggered = FALSE
    /\ balance_recovery_triggered = FALSE
    /\ asset_losscut_triggered = FALSE
    /\ asset_takeprofit_triggered = FALSE
    /\ current_balance = None
    /\ initial_asset = None
    /\ thresholds = FALSE
    /\ use_schedule = TRUE
    /\ exit_action \in ExitActions
    /\ position_limits = ConfiguredLimits
    /\ schedule_active = FALSE
    /\ last_schedule_active = << TRUE >>
    /\ pending_close = FALSE
    /\ em_kind = "none"
    /\ em_start = NoStart
    /\ em_orders = {}
    /\ em_log = << >>
    /\ flags_read = << >>
    /\ schedules = List(<< >>)
    /\ clock = 0
    /\ fetch_ok = TRUE

NextX ==
    \/ TickStart
    \/ Gate
    \/ SxList
    \/ SxCancel
    \/ SxClose
    \/ SxLimit
    \/ LimitFilled
    \/ SxCheck
    \/ SxFallback
    \/ SxDone

SpecX == InitX /\ [][NextX]_vars

-----------------------------------------------------------------------------
(* Reduce mode on a resting grid.  The engine has completed a first BOX     *)
(* tick at mid m with a flat position; since then the stream has reported a *)
(* LONG or a SHORT position at the size limit.  _reduce_mode is still off:  *)
(* it is evaluated by the next call of _place_order.                        *)
InitR ==
    /\ mode = "BOX"
    /\ pc = "loop"
    /\ last_tick = "ok"
    /\ loop_iter = 1 % ActiveSyncEvery
    /\ mid_price = None
    /\ \E m \in Mids :
        /\ placed_buy_px_to_id = RestingBuys(m)
        /\ placed_sell_px_to_id = RestingSells(m)
        /\ cached_active_orders = RestingRows(m)
        /\ open_orders = RestingRows(m)
    /\ initialized = TRUE
    /\ bin_center_units = None
    /\ reduce_mode = FALSE
    /\ self_cross_skip_count = 0
    /\ buy_iter = << >>
    /\ sell_iter = << >>
    /\ current_side = "SELL"
    /\ box_hist = NoPlan
    /\ filled_buy_prices = {}
    /\ filled_sell_prices = {}
    /\ active_orders = {}
    /\ cache_aliased = FALSE
    /\ slides_left = 0
    /\ submitted = {}
    /\ next_id = 2 * Levels + 1
    /\ env_events = 0
    /\ all_positions \in {<< Position(PositionSizeLimit) >>,
                          << Position(0 - PositionSizeLimit) >>}
    /\ current_price = None
    /\ losscut_triggered = FALSE
    /\ balance_recovery_triggered = FALSE
    /\ asset_losscut_triggered = FALSE
    /\ asset_takeprofit_triggered = FALSE
    /\ current_balance = None
    /\ initial_asset = None
    /\ thresholds = FALSE
    /\ use_schedule = FALSE
    /\ exit_action = "immediately"
    /\ position_limits = ConfiguredLimits
    /\ schedule_active = TRUE
    /\ last_schedule_active = << >>
    /\ pending_close = FALSE
    /\ em_kind = "none"
    /\ em_start = NoStart
    /\ em_orders = {}
    /\ em_log = << >>
    /\ flags_read = << >>
    /\ schedules = List(<< >>)
    /\ clock = 0
    /\ fetch_ok = TRUE

NextR ==
    \/ TickStart
    \/ CheckLosscut
    \/ CheckTakeprofit
    \/ CheckBalanceRecovery
    \/ CheckAssetLosscut
    \/ CheckAssetTakeprofit
    \/ PriceFetch
    \/ Refresh
    \/ BoxCancel
    \/ BoxPlan
    \/ BoxAdd
    \/ RepDetect
    \/ RepCancel
    \/ RepNear
    \/ RepOuter
    \/ Unmanaged
    \/ Fill
    \/ ForeignOrder
    \/ TradeEvent
    \/ TickerEvent

SpecR == InitR /\ [][NextR]_vars

-----------------------------------------------------------------------------
(* Stop.  Nothing in the repository sets _running to False; the process is  *)
(* stopped by SIGINT, which asyncio.run turns into the cancellation of the  *)
(* task that runs main(): CancelledError is raised at the await the         *)
(* controller is suspended in, passes the "except Exception" handlers of    *)
(* the loop and reaches the finally clause of run(), which awaits           *)
(* adapter.close(); run_edgex_grid.py logs "stopped by user".               *)
Stop ==
    /\ pc # "closed"
    /\ pc' = "closed"
    /\ UNCHANGED << mode, last_tick, loop_iter, mid_price, initialized,
                    bin_center_units, slides_left, placeVars, iterVars, repVars,
                    monVars, ctlVars >>

NextK == Next \/ Stop

SpecK == Init /\ [][NextK]_vars

-----------------------------------------------------------------------------
(* Guarded grid: BOX mode, every trigger threshold configured, schedule     *)
(* enabled.  run() connects and starts the position monitoring before its   *)
(* loop: the first message of the private stream (the open position and the *)
(* collateral of the account) may already have been handled.                *)
InitE ==
    /\ InitCommon
    /\ mode = "BOX"
    /\ thresholds = TRUE
    /\ use_schedule = TRUE
    /\ schedule_active \in BOOLEAN
    /\ \/ /\ all_positions = << >>
          /\ current_balance = None
       \/ /\ all_positions = << Position(PositionSizeLimit) >>
          /\ current_balance = Min(Amounts) + PositionAdjustment(all_positions)

NextE ==
    \/ TickStart
    \/ Gate
    \/ ScheduleFlip
    \/ SxList
    \/ SxCancel
    \/ SxClose
    \/ CheckLosscut
    \/ CheckTakeprofit
    \/ CheckBalanceRecovery
    \/ CheckAssetLosscut
    \/ CheckAssetTakeprofit
    \/ EmFlatten1
    \/ EmList
    \/ EmCancel
    \/ EmFlatten2
    \/ EmClear
    \/ EmRewrite
    \/ EmCooldown
    \/ PriceFetch
    \/ Refresh
    \/ BoxCancel
    \/ BoxPlan
    \/ BoxAdd
    \/ RepDetect
    \/ RepCancel
    \/ RepNear
    \/ RepOuter
    \/ Unmanaged
    \/ Fill
    \/ ForeignOrder
    \/ TradeEvent
    \/ TickerEvent
    \/ PositionClosed

SpecE == InitE /\ [][NextE]_vars

-----------------------------------------------------------------------------
(* Properties.                                                              *)

Buys == DOMAIN placed_buy_px_to_id
Sells == DOMAIN placed_sell_px_to_id

(* C1: in every reachable state the mirror holds at most Levels BUY rungs   *)
(* and at most Levels SELL rungs.                                           *)
C1_MirrorWithinLevels ==
    /\ Cardinality(Buys) <= Levels
    /\ Cardinality(Sells) <= Levels

(* C2: in every reachable state no price is a key of both sides of the      *)
(* mirror.                                                                  *)
C2_NoPriceOnBothSides == Buys \cap Sells = {}

(* C3: in every reachable state two distinct prices of the same side of     *)
(* the mirror differ by at least the grid step.                             *)
C3_SameSideMinGap ==
    /\ \A p1, p2 \in Buys : p1 # p2 => Abs(p1 - p2) >= Step
    /\ \A p1, p2 \in Sells : p1 # p2 => Abs(p1 - p2) >= Step

(* C5: every limit order submitted during an iteration, by the planner or   *)
(* by the replenishment, is a BUY strictly below that iteration's mid price *)
(* or a SELL strictly above it.                                             *)
C5_SubmittedNeverCrossesMid ==
    \A r \in submitted :
        /\ r.side = "BUY" => r.price < r.mid
        /\ r.side = "SELL" => r.price > r.mid

(* C4, as stated: after every iteration that completes without error no     *)
(* rung of the mirror rests inside the dead band: every BUY rung is at most *)
(* mid - FirstOffset + tol and every SELL rung at least                     *)
(* mid + FirstOffset - tol, with tol = 1.01 price ticks.                    *)
C4_NoRungInsideDeadBand ==
    [][(pc' = "loop" /\ last_tick' = "ok") =>
          /\ \A p \in Buys' : p * 100 <= (mid_price - FirstOffset) * 100 + Tol100
          /\ \A p \in Sells' : p * 100 >= (mid_price + FirstOffset) * 100 - Tol100]_vars

(* C4, amended: in BOX mode every rung the planner submits in an iteration  *)
(* lies outside the dead band of that iteration's mid price (BUY at most    *)
(* mid - FirstOffset + tol, SELL at least mid + FirstOffset - tol).         *)
C4_BoxPlannerOutsideDeadBand ==
    mode = "BOX" =>
        \A r \in submitted : r.origin = "planner" =>
            /\ r.side = "BUY" => r.price * 100 <= (r.mid - FirstOffset) * 100 + Tol100
            /\ r.side = "SELL" => r.price * 100 >= (r.mid + FirstOffset) * 100 - Tol100

C4_Witness ==
    /\ mode = "BOX" /\ pc = "loop" /\ last_tick = "ok"
    /\ \E r \in submitted : r.origin = "planner" /\ r.side = "BUY" /\ r.price \in Buys
    /\ \E r \in submitted : r.origin = "planner" /\ r.side = "SELL" /\ r.price \in Sells

(* C6, as stated: at the end of an iteration in which reduce mode is on and *)
(* the position is LONG, no BUY was submitted during that iteration; the    *)
(* same for SHORT and SELL.                                                 *)
C6_NoIncreasingOrderInReduceTick ==
    (pc = "loop" /\ last_tick = "ok" /\ reduce_mode) =>
        \A r \in submitted : ~ IsIncreasing(PosSide, r.side)

(* C6, amended: no call of _place_order that finds reduce mode on and the   *)
(* position LONG submits a BUY, and none that finds it SHORT submits a SELL.*)
C6_NoIncreasingOrderWhenReduceRead ==
    \A r \in submitted : r.reduce => ~ IsIncreasing(r.pos_side, r.side)

C6_Witness ==
    /\ pc = "loop" /\ last_tick = "ok" /\ reduce_mode /\ PosSide = "LONG"
    /\ \E r \in submitted : r.reduce /\ r.pos_side = "LONG" /\ r.side = "SELL"

-----------------------------------------------------------------------------
(* Emergency branches.                                                      *)
KindOrder == << "position_loss_cut", "position_take_profit", "balance_recovery",
               "asset_loss_cut", "asset_take_profit" >>
EmergencyPoints == {"em_flatten1", "em_list", "em_cancel", "em_flatten2", "em_clear",
                    "em_rewrite", "em_cooldown"}
Indices(log, e) == {i \in 1..Len(log) : log[i] = e}

(* C7: when the trigger evaluation of a tick finds a latch set, the branch  *)
(* of the first latch found set, in the order position_loss_cut,            *)
(* position_take_profit, balance_recovery, asset_loss_cut,                  *)
(* asset_take_profit, is the one emergency procedure of the tick: no later  *)
(* latch is evaluated, the procedure does not run twice, and the tick       *)
(* submits no planner or replenishment order.                               *)
C7_FirstSetFlagRunsAlone ==
    /\ \A i \in 1..Len(flags_read) : flags_read[i] =>
          /\ i = Len(flags_read)
          /\ em_kind = KindOrder[i]
          /\ pc \in EmergencyPoints \cup {"loop"}
          /\ pc = "loop" => last_tick \in {"emergency", "aborted"}
          /\ submitted = {}
          /\ Cardinality(Indices(em_log, "cooldown")) <= 1
          /\ Cardinality(Indices(em_log, "clear")) <= 1
    /\ (\A i \in 1..Len(flags_read) : ~ flags_read[i]) =>
          em_kind = "none" /\ pc \notin EmergencyPoints

C7_Witness ==
    /\ pc = "loop" /\ last_tick = "emergency"
    /\ flags_read = << FALSE, FALSE, TRUE >>
    /\ em_kind = "balance_recovery"
    /\ asset_takeprofit_triggered
    /\ Indices(em_log, "cooldown") # {}

(* C8: in an emergency procedure that reached its cooldown the first        *)
(* flatten call precedes every cancel call, every cancel call precedes the  *)
(* second flatten call, and the latch is cleared after the second flatten   *)
(* call and before the cooldown.                                            *)
C8_EmergencyStepOrder ==
    (pc = "loop" /\ last_tick = "emergency") =>
        LET F == Indices(em_log, "flatten")
            K == Indices(em_log, "cancel")
            Cl == Indices(em_log, "clear")
            Cd == Indices(em_log, "cooldown")
        IN /\ Cardinality(F) = 2
           /\ Cardinality(Cl) = 1
           /\ Cd = {Len(em_log)}
           /\ \A k \in K : Min(F) < k /\ k < Max(F)
           /\ \A c \in Cl : Max(F) < c /\ c < Len(em_log)

C8_Witness ==
    /\ pc = "loop" /\ last_tick = "emergency"
    /\ Cardinality(Indices(em_log, "cancel")) >= 2
    /\ em_kind = "asset_loss_cut"
    /\ ~ asset_losscut_triggered

(* C9 as stated: position_loss_cut, once raised, is cleared by nobody       *)
(* before an emergency procedure has called flatten.                        *)
C9_LosscutClearedOnlyAfterFlatten ==
    [][(losscut_triggered /\ ~ losscut_triggered') =>
          (em_kind # "none" /\ Indices(em_log, "flatten") # {})]_vars

(* C9: whenever the loss-cut check of a tick reads position_loss_cut set,   *)
(* that tick runs the position loss-cut procedure and calls flatten before  *)
(* the controller clears the latch.                                         *)
C9_ReadSetFlattensBeforeControllerClear ==
    (flags_read # << >> /\ flags_read[1]) =>
        /\ em_kind = "position_loss_cut"
        /\ pc \in EmergencyPoints \cup {"loop"}
        /\ pc # "em_flatten1" => (em_log # << >> /\ em_log[1] = "flatten")
        /\ \A c \in Indices(em_log, "clear") :
              Cardinality({f \in Indices(em_log, "flatten") : f < c}) = 2

C9_Witness ==
    /\ pc = "loop" /\ last_tick = "emergency"
    /\ flags_read = << TRUE >>
    /\ Indices(em_log, "clear") # {}
    /\ ~ losscut_triggered

(* C10: an asset latch that is set is reset by no monitor event, a FLAT     *)
(* observation included; only step 4 of its own emergency procedure resets  *)
(* it.                                                                      *)
C10_AssetLatchClearedOnlyByStep4 ==
    [][/\ (asset_losscut_triggered /\ ~ asset_losscut_triggered') =>
            (pc = "em_clear" /\ em_kind = "asset_loss_cut")
       /\ (asset_takeprofit_triggered /\ ~ asset_takeprofit_triggered') =>
            (pc = "em_clear" /\ em_kind = "asset_take_profit")]_vars

C10_Witness ==
    /\ asset_losscut_triggered \/ asset_takeprofit_triggered
    /\ all_positions # << >> /\ ValidIdx(all_positions) = {}
    /\ ~ losscut_triggered
    /\ pc \in PositionReadPoints

-----------------------------------------------------------------------------
(* Monitor latches.                                                         *)
RECURSIVE SignedSum(_, _)
SignedSum(pos, i) == IF i = 0 THEN 0 ELSE pos[i].openSize + SignedSum(pos, i - 1)
NetSize(pos) == SignedSum(pos, Len(pos))
MonitorEvent == TradeEvent \/ TickerEvent \/ PositionClosed

(* C11: after the monitor has processed a position or ticker event with a   *)
(* net size (sum of the signed sub-position sizes) below the zero threshold *)
(* position_loss_cut and balance_recovery are both clear.                   *)
C11_FlatNetSizeClearsLatches ==
    [][(MonitorEvent /\ Abs(NetSize(all_positions')) < ZeroSize) =>
          (~ losscut_triggered' /\ ~ balance_recovery_triggered')]_vars
(* pnl_pct <= -|PLCP| for the positions and the price given                 *)
LossCondition(pos, price) ==
    /\ pos # << >> /\ price # None /\ ValidIdx(pos) # {}
    /\ LOSSCUT_PERCENTAGE # None
    /\ TotalValue(pos, Len(pos)) > 0
    /\ TotalPnl(pos, price, Len(pos)) * 100 * Leverage
          <= (0 - Abs(LOSSCUT_PERCENTAGE)) * TotalValue(pos, Len(pos))

(* C12: the position_loss_cut latch is raised only by pnl_pct <= -|PLCP|;   *)
(* a take-profit condition never sets it.                                   *)
C12_LosscutRaisedOnlyByLoss ==
    [][(~ losscut_triggered /\ losscut_triggered') =>
          LossCondition(all_positions', current_price')]_vars
-----------------------------------------------------------------------------
(* Fill detection.                                                          *)
SnapshotIds(rows) == {r.id : r \in rows}
MissingRungs(side_map, rows) ==
    {px \in DOMAIN side_map : side_map[px] \notin SnapshotIds(rows)}
SnapshotStep == pc = "refresh" /\ pc' = "ensure"

(* C14: in BOX mode, in every tick, sync ticks included, a rung of the      *)
(* mirror whose id is absent from the snapshot fetched in the tick is left  *)
(* in the mirror by the snapshot step, so that the replenisher removes it   *)
(* as a fill and runs the anchor rule in the same tick.                     *)
C14_MissingRungReachesReplenisher ==
    [][(SnapshotStep /\ mode = "BOX") =>
          /\ \A px \in MissingRungs(placed_buy_px_to_id, cached_active_orders') :
                /\ px \in DOMAIN placed_buy_px_to_id'
                /\ placed_buy_px_to_id'[px] = placed_buy_px_to_id[px]
          /\ \A px \in MissingRungs(placed_sell_px_to_id, cached_active_orders') :
                /\ px \in DOMAIN placed_sell_px_to_id'
                /\ placed_sell_px_to_id'[px] = placed_sell_px_to_id[px]]_vars
(* The replenisher has finished the cancel step of the anchor rule.         *)
CancelStepDone == pc = "rep_cancel" /\ pc' = "rep_near"
Remaining(n, k) == IF n > k THEN n - k ELSE 0

(* C15: when k >= 1 BUY rungs are detected as filled in one tick, the       *)
(* anchor rule is applied once per fill: when the replenisher has finished  *)
(* cancelling, the k furthest SELLs (all of them if there are fewer) have   *)
(* left the mirror; symmetric for SELL fills.                               *)
C15_AnchorRuleOncePerFill ==
    [][CancelStepDone =>
          IF FilledSide = "BUY"
          THEN Cardinality(DOMAIN placed_sell_px_to_id')
                 = Remaining(Cardinality(DOMAIN placed_sell_px_to_id),
                             Cardinality(filled_buy_prices))
          ELSE Cardinality(DOMAIN placed_buy_px_to_id')
                 = Remaining(Cardinality(DOMAIN placed_buy_px_to_id),
                             Cardinality(filled_sell_prices))]_vars
-----------------------------------------------------------------------------
(* BOX targets.                                                             *)
CeilDiv(v, n) == 0 - ((0 - v) \div n)
Lattice == {k * Step : k \in (0 - Levels)..(MaxMid + FirstOffset)}
LatticeBelow(v) == CHOOSE m \in Lattice : m < v /\ m + Step >= v
LatticeAbove(v) == CHOOSE m \in Lattice : m > v /\ m - Step <= v
Rungs(start, dir) == {start + dir * i * Step : i \in 0..(Levels - 1)}
PlannerRows == {r \in submitted : r.origin = "planner"}

-----------------------------------------------------------------------------
(* Planner idempotence.                                                     *)
PlannerPoints == {"ensure", "box_add", "bin_init", "bin_refill", "bin_cancel",
                  "bin_near", "bin_outer"}
MirrorMatches ==
    /\ mid_price # None
    /\ IF mode = "BOX"
       THEN /\ Buys = BoxBuyTargets(mid_price)
            /\ Sells = BoxSellTargets(mid_price)
       ELSE /\ Buys = BinBuyTargets
            /\ Sells = BinSellTargets
            /\ bin_center_units = CenterUnits

(* C17: while the mirror equals the planner's target set for the mid of the *)
(* tick (BIN: with the center unchanged), no planner step cancels or places *)
(* an order or changes the mirror; this holds in every tick, so also for a  *)
(* second run with the same inputs.                                         *)
C17_PlannerIdempotent ==
    [][(pc \in PlannerPoints /\ MirrorMatches) =>
          /\ placed_buy_px_to_id' = placed_buy_px_to_id
          /\ placed_sell_px_to_id' = placed_sell_px_to_id
          /\ submitted' = submitted
          /\ open_orders' = open_orders]_vars

C17_Witness ==
    /\ pc = "replenish"
    /\ mode = "BOX"
    /\ MirrorMatches
    /\ Cardinality(Buys) = Levels /\ Cardinality(Sells) = Levels
    /\ submitted = {}

-----------------------------------------------------------------------------
(* Schedule lookup and schedule fetch.                                      *)

(* C18: an is_active call at time t answers true if and only if some        *)
(* interval of the stored list has from <= t < to; at t equal to the end of *)
(* an interval that no other interval covers it answers false.              *)
C18_IsActiveHalfOpen ==
    [][(IsActiveCall /\ schedules.is_list) =>
          (schedule_active' <=>
              \E i \in DOMAIN schedules.rows :
                  /\ schedules.rows[i].from # None
                  /\ schedules.rows[i].from <= clock
                  /\ clock < schedules.rows[i].to)]_vars

(* C19: a fetch_schedule call that returns False leaves the stored list as  *)
(* it was before the call, so that is_active and the lot coefficient go on  *)
(* answering from the last good list.                                       *)
C19_FailedFetchKeepsList ==
    [][(FetchSchedule /\ ~ fetch_ok') =>
          /\ schedules' = schedules
          /\ schedules'.is_list
          /\ \A t \in 0..MaxTime :
                /\ IsActive(schedules'.rows, t) = IsActive(schedules.rows, t)
                /\ GetLotCoefficient(schedules'.rows, t)
                      = GetLotCoefficient(schedules.rows, t)]_vars

-----------------------------------------------------------------------------
(* Construction.                                                            *)

(* C20: construction is accepted if and only if exactly one position-limit  *)
(* family is configured, with its limit and its release threshold above 0   *)
(* and the release threshold strictly below the limit; otherwise it exits   *)
(* before any adapter call; the accepted values never change afterwards.    *)
C20_ConstructionValidates ==
    [][/\ Construct =>
            /\ (pc' = "loop") <=>
                  LET l == position_limits
                      good_btc == /\ Gt(l.size_limit, 0)
                                  /\ Gt(l.size_reduce_only, 0)
                                  /\ Gt(l.size_limit, l.size_reduce_only)
                      good_ratio == /\ Gt(l.ratio_limit, 0)
                                    /\ Gt(l.ratio_reduce_only, 0)
                                    /\ Gt(l.ratio_limit, l.ratio_reduce_only)
                  IN  \/ good_btc /\ ~ has_ratio(l)
                      \/ good_ratio /\ ~ has_btc(l)
            /\ (pc' # "loop") => (pc' = "exit" /\ submitted' = {} /\ open_orders' = {})
       /\ position_limits' = position_limits]_vars

-----------------------------------------------------------------------------
(* Failures of adapter calls.                                               *)

(* A controller step in which an adapter call raised: the price fetch, the  *)
(* list of open orders, a cancel of the BOX planner or a place_order of the *)
(* BOX planner.  A rate-limit error is one of the exceptions each of these  *)
(* calls can raise.                                                         *)
CallFailed ==
    \/ PriceFetch /\ env_events' > env_events
    \/ Refresh /\ env_events' > env_events
    \/ BoxCancel /\ env_events' > env_events
    \/ BoxAdd /\ submitted' # submitted /\ next_id' = next_id

(* C21: when an adapter call of a tick fails with a rate-limit error, the   *)
(* controller makes no further adapter call in that tick: the failing step  *)
(* ends the tick, the controller sleeps and starts the next tick.           *)
C21_FailedCallEndsTick ==
    [][CallFailed => pc' = "loop"]_vars

(* C22: when the list request of a tick fails, the cached snapshot after    *)
(* the refresh step is the one before it, not an empty list, and the        *)
(* mirror is not rebuilt from an empty list.                                *)
C22_FailedListKeepsSnapshot ==
    [][(Refresh /\ env_events' > env_events) =>
          /\ cached_active_orders' = cached_active_orders
          /\ placed_buy_px_to_id' = placed_buy_px_to_id
          /\ placed_sell_px_to_id' = placed_sell_px_to_id]_vars

-----------------------------------------------------------------------------
(* Schedule gate and schedule exit.                                         *)

SxPoints == {"sx_list", "sx_cancel", "sx_close", "sx_limit", "sx_check",
             "sx_fallback", "sx_done"}
ExitObserved ==
    pc = "gate" /\ last_schedule_active = << TRUE >> /\ ~ schedule_active

(* C23: with the schedule enabled, the controller starts the schedule-exit  *)
(* procedure when, and only when, its gate reads the schedule inactive      *)
(* after having read it active; the procedure ends by recording the         *)
(* inactive reading, so it runs once per transition; in a tick whose gate   *)
(* reads the schedule inactive nothing is placed and the planner and the    *)
(* replenisher are not entered.                                             *)
C23_ExitOncePerTransition ==
    [][/\ (ExitObserved /\ pc' # pc) => pc' = "sx_list"
       /\ (pc' = "sx_list" /\ pc # "sx_list") => ExitObserved
       /\ (pc \in SxPoints /\ pc' \notin SxPoints) =>
             (pc' = "loop" /\ last_schedule_active' = << FALSE >>)
       /\ (pc = "gate" /\ ~ schedule_active /\ pc' # pc) =>
             pc' \in {"sx_list", "loop"}
       /\ (pc \in SxPoints \/ pc' \in SxPoints) =>
             /\ \A r \in submitted' \ submitted : r.origin = "exit"
             /\ pc' \in SxPoints \cup {"loop"}]_vars

C23_Witness ==
    /\ pc = "loop"
    /\ last_tick = "idle"
    /\ last_schedule_active = << FALSE >>
    /\ em_log # << >>
    /\ em_log[Len(em_log)] = "flatten"

(* C24: the schedule-exit procedure with action "immediately" is left only  *)
(* through its flatten step, and when it is left the mirror is empty and    *)
(* flatten has been called, whether or not the list or a cancel failed.     *)
C24_ExitClearsMirrorAndFlattens ==
    [][(exit_action = "immediately" /\ pc \in SxPoints /\ pc' \notin SxPoints) =>
          /\ pc = "sx_close"
          /\ placed_buy_px_to_id' = EmptyMap
          /\ placed_sell_px_to_id' = EmptyMap
          /\ em_log' # << >>
          /\ em_log'[Len(em_log')] = "flatten"]_vars

(* The exit has returned after a failed list: no cancel was issued although *)
(* two or more orders rest on the exchange.                                 *)
C24_Witness ==
    /\ exit_action = "immediately"
    /\ pc = "loop"
    /\ last_tick = "idle"
    /\ last_schedule_active = << FALSE >>
    /\ em_log = << "flatten" >>
    /\ Cardinality(open_orders) >= 2
    /\ placed_buy_px_to_id = EmptyMap
    /\ placed_sell_px_to_id = EmptyMap

(* The adapter calls of one run of the exit procedure with action "auto",   *)
(* as left in em_log when the procedure returns.                            *)
AfterCancelAll(log) ==
    LET cancels == {i \in DOMAIN log : log[i] = "cancel" /\ \A j \in 1..i : log[j] = "cancel"}
    IN SubSeq(log, Cardinality(cancels) + 1, Len(log))

-----------------------------------------------------------------------------
(* Stop.                                                                    *)

(* C26: after a stop signal the controller completes the tick in progress   *)
(* before it calls adapter.close() and terminates: the controller is closed *)
(* only from between two ticks.                                             *)
C26_StopCompletesTick ==
    [][pc' = "closed" => pc \in {"loop", "closed"}]_vars

-----------------------------------------------------------------------------
(* Writers of the latches.                                                  *)

(* C27: every write to a trigger flag is performed by the monitor task: a   *)
(* step that changes one of the four latches is a handler of the monitor,   *)
(* never a step of the controller.                                          *)
C27_FlagsSingleWriter ==
    [][flagVars' # flagVars => MonitorEvent]_vars

-----------------------------------------------------------------------------
(* Order of the BOX placements.                                             *)

SideOf(i) == box_hist.attempts[i].side
SideList(side) == IF side = "BUY" THEN box_hist.buys ELSE box_hist.sells
(* Number of the first i attempts that are on the given side.               *)
AttemptsOn(side, i) == Cardinality({j \in 1..i : SideOf(j) = side})
BothSidesMissing == box_hist.buys # << >> /\ box_hist.sells # << >>

(* C28: in a BOX tick where targets are missing on both sides the calls of  *)
(* _place_order alternate between BUY and SELL as long as the other side    *)
(* has a missing target that was not attempted yet, each side is attempted  *)
(* nearest-to-mid first (the k-th attempt of a side is the k-th price of    *)
(* its sorted list), and the first attempt is a BUY exactly when the        *)
(* position read by the planner is SHORT.                                   *)
C28_BoxAlternation ==
    BothSidesMissing =>
        LET a == box_hist.attempts IN
        /\ a # << >> => (SideOf(1) = "BUY" <=> box_hist.pos_side = "SHORT")
        /\ \A i \in 1..(Len(a) - 1) :
              SideOf(i + 1) = SideOf(i) =>
                  AttemptsOn(Flip(SideOf(i)), i) = Len(SideList(Flip(SideOf(i))))
        /\ \A i \in 1..Len(a) :
              a[i].price = SideList(SideOf(i))[AttemptsOn(SideOf(i), i)]

-----------------------------------------------------------------------------
(* BIN slides.                                                              *)

SlidePoints == {"bin_cancel", "bin_near", "bin_outer"}
Requested(side, px) ==
    \E r \in submitted' : r.side = side /\ r.price = px /\ r.mid = mid_price
                          /\ r.origin = "planner"
SellRows(rows) == {r \in rows : r.side = "SELL"}
BuyRows(rows) == {r \in rows : r.side = "BUY"}

(* The slide in one direction (up = TRUE: the center moved up).             *)
InnerSide(up) == IF up THEN "BUY" ELSE "SELL"
OuterSide(up) == IF up THEN "SELL" ELSE "BUY"
InnerMap(up) == IF up THEN placed_buy_px_to_id ELSE placed_sell_px_to_id
OuterMap(up) == IF up THEN placed_sell_px_to_id ELSE placed_buy_px_to_id
FarInner(up) == IF up THEN Min(Buys) ELSE Max(Sells)
NearPx(up) == IF up THEN Max(Buys) + Step ELSE Min(Sells) - Step
OuterPx(up) == IF up THEN Max(Sells) + Step ELSE Min(Buys) - Step
Inside(up, px) == IF up THEN px < mid_price ELSE px > mid_price
Beyond(up, px) == IF up THEN px > mid_price ELSE px < mid_price /\ px > 0
SideRowsOf(up, rows) == IF up THEN SellRows(rows) ELSE BuyRows(rows)
Sliding(up) ==
    /\ mode = "BIN" /\ initialized /\ bin_center_units # None
    /\ pc \in SlidePoints \cup {"ensure"}
    /\ IF up THEN CenterUnits > bin_center_units ELSE CenterUnits < bin_center_units
    /\ pc' # pc

(* Parts common to the claim as stated and as amended: the number of slides,*)
(* the cancel of the far rung of the inner side, the near add.              *)
SlideCore(up) ==
    /\ pc = "ensure" => (pc' = "bin_cancel"
                         /\ slides_left' = Abs(CenterUnits - bin_center_units))
    /\ (pc = "bin_cancel" /\ DOMAIN InnerMap(up) # {}) =>
          /\ IF up THEN placed_buy_px_to_id' = Pop(placed_buy_px_to_id, FarInner(up))
                   ELSE placed_sell_px_to_id' = Pop(placed_sell_px_to_id, FarInner(up))
          /\ \/ open_orders' = ExchangeCancel(open_orders, {InnerMap(up)[FarInner(up)]})
             \/ open_orders' = open_orders /\ env_events' > env_events
    /\ pc = "bin_near" =>
          \A r \in submitted' \ submitted :
              /\ r.side = InnerSide(up)
              /\ DOMAIN InnerMap(up) # {} => r.price = NearPx(up)
              /\ Inside(up, r.price)
    /\ pc = "bin_outer" =>
          /\ \A r \in submitted' \ submitted :
                r.side = OuterSide(up) /\ r.price = OuterPx(up)
          /\ slides_left' = slides_left - 1
          /\ pc' = IF slides_left' = 0 THEN "replenish" ELSE "bin_cancel"
          /\ slides_left' = 0 => bin_center_units' = CenterUnits

(* No cancel reaches a resting order of the outer side.                     *)
KeepsOuter(up) == SideRowsOf(up, open_orders) \subseteq SideRowsOf(up, open_orders')

(* C29 as stated: the planner starts d slides when the rounded center is d  *)
(* units away from the recorded one; a slide takes the far rung of the      *)
(* inner side (the lowest BUY on a move up) out of the mirror and cancels   *)
(* it, requests an inner rung only at (nearest + N) and only inside of mid, *)
(* requests one outer rung at (furthest + N), and cancels no outer rung.    *)
SlideAsStated(up) ==
    Sliding(up) =>
        /\ SlideCore(up)
        /\ (pc = "bin_outer" /\ DOMAIN OuterMap(up) # {}) =>
              Requested(OuterSide(up), OuterPx(up))
        /\ pc \in SlidePoints => KeepsOuter(up)

SlideAmended(up) ==
    Sliding(up) =>
        /\ SlideCore(up)
        /\ pc = "bin_outer" =>
              \A r \in submitted' \ submitted : Beyond(up, r.price)
        /\ (pc = "bin_outer" /\ DOMAIN OuterMap(up) # {} /\ Beyond(up, OuterPx(up))
              /\ OuterPx(up) \notin DOMAIN InnerMap(up)
              /\ ~ ReduceSkip(reduce_mode', PosSide, OuterSide(up))) =>
              Requested(OuterSide(up), OuterPx(up))
        /\ (pc \in SlidePoints /\ (reduce_mode \/ ~ reduce_mode')) => KeepsOuter(up)

-----------------------------------------------------------------------------
(* Entry into reduce mode.                                                  *)

(* C30: when _reduce_mode goes from false to true with a LONG position the  *)
(* mirror holds no BUY rung once the entry step is complete, and with a     *)
(* SHORT position no SELL rung, also when a cancel call fails.              *)
C30_ReduceEntryClearsSide ==
    [][(~ reduce_mode /\ reduce_mode') =>
          /\ PosSide = "LONG" => DOMAIN placed_buy_px_to_id' = {}
          /\ PosSide = "SHORT" => DOMAIN placed_sell_px_to_id' = {}]_vars

-----------------------------------------------------------------------------
(* Self-cross guard.                                                        *)

OppositeMap(side) == IF side = "BUY" THEN placed_sell_px_to_id' ELSE placed_buy_px_to_id'
SkipStep == self_cross_skip_count' # self_cross_skip_count /\ pc # "loop"

-----------------------------------------------------------------------------
(* Baseline of the asset triggers.                                          *)

AssetFlag(kind) ==
    IF kind = "asset_loss_cut" THEN asset_losscut_triggered ELSE asset_takeprofit_triggered

(* C32: in an asset-based emergency the baseline is rewritten no later than *)
(* the flag is cleared: in the state in which the controller has cleared    *)
(* the asset flag, initial_asset is the current balance and no longer the   *)
(* baseline of before the emergency.                                        *)
C32_BaselineBeforeClear ==
    [][(pc = "em_clear" /\ em_kind \in AssetKinds /\ AssetFlag(em_kind)
          /\ ~ AssetFlag(em_kind)' /\ current_balance # None)
        => initial_asset' = current_balance]_vars

-----------------------------------------------------------------------------
(* Orders on the book.                                                      *)

(* C33: the exchange never holds two OPEN orders of the bot with the same   *)
(* side and price.  Prices at which an order of another origin can rest are *)
(* left out, so that every pair counted is a pair of bot orders.            *)
C33_OneOpenOrderPerRung ==
    \A r1, r2 \in open_orders :
        (r1.side = r2.side /\ r1.price = r2.price /\ r1.price \notin ForeignPrices)
            => r1.id = r2.id

(* C34: when an emergency procedure reaches its cooldown no order placed by *)
(* the bot is OPEN on the exchange (orders at prices where an order of      *)
(* another origin can rest are not counted).                                *)
C34_NoOpenOrderAtCooldown ==
    pc = "em_cooldown" => \A r \in open_orders : r.price \in ForeignPrices

-----------------------------------------------------------------------------
(* Exceptions in an emergency branch.                                       *)

EmAborted == pc \in {"em_flatten1", "em_flatten2"} /\ last_tick' = "aborted"

(* C35 as stated: when an exception escapes a step of an emergency          *)
(* procedure the trigger flags are left as they are and the mirror is as it *)
(* was when the procedure began; and the controller clears a flag only      *)
(* after both flatten calls of the procedure have returned.                 *)
C35_AbortKeepsFlagAndMirror ==
    [][/\ EmAborted =>
             /\ flagVars' = flagVars
             /\ placed_buy_px_to_id' = em_start.buys
             /\ placed_sell_px_to_id' = em_start.sells
       /\ (pc = "em_clear" /\ pc' # pc) =>
             (Cardinality(Indices(em_log, "flatten")) = 2 /\ last_tick # "aborted")]_vars

(* C35: the flags are left as they are; the mirror is as it was when the    *)
(* procedure began if the first flatten raised, and empty, with the cached  *)
(* snapshot, if the second flatten raised, because step 2 has run; the      *)
(* controller clears a flag only after both flatten calls have returned.    *)
C35_AbortKeepsFlag ==
    [][/\ EmAborted =>
             /\ flagVars' = flagVars
             /\ pc = "em_flatten1" =>
                   /\ placed_buy_px_to_id' = em_start.buys
                   /\ placed_sell_px_to_id' = em_start.sells
             /\ pc = "em_flatten2" =>
                   /\ placed_buy_px_to_id' = EmptyMap
                   /\ placed_sell_px_to_id' = EmptyMap
                   /\ cached_active_orders' = {}
       /\ (pc = "em_clear" /\ pc' # pc) =>
             (Cardinality(Indices(em_log, "flatten")) = 2 /\ last_tick # "aborted")]_vars

(* The first flatten of a position loss cut raised on a grid with rungs.    *)
C35_Witness ==
    /\ pc = "loop" /\ last_tick = "aborted"
    /\ em_kind = "position_loss_cut" /\ losscut_triggered
    /\ em_log = << "flatten" >>
    /\ em_start.entered /\ DOMAIN em_start.sells # {}
    /\ placed_sell_px_to_id = em_start.sells

-----------------------------------------------------------------------------
(* Reduce mode, latched.                                                    *)

(* C36: while _reduce_mode is true and the position is LONG the mirror      *)
(* holds no BUY rung, and while it is true and the position is SHORT the    *)
(* mirror holds no SELL rung.                                               *)
C36_ReduceModeNoIncreasingRung ==
    reduce_mode =>
        /\ PosSide = "LONG" => Buys = {}
        /\ PosSide = "SHORT" => Sells = {}

-----------------------------------------------------------------------------
(* Order ids in the mirror.                                                 *)

MirrorIds(buys, sells) ==
    {buys[px] : px \in DOMAIN buys} \cup {sells[px] : px \in DOMAIN sells}

(* C37: no step stores an empty order id in the mirror, and fill detection  *)
(* never classifies as filled a rung whose id is empty.                     *)
C37_MirrorIdsNonEmpty ==
    [][ /\ NoId \notin MirrorIds(placed_buy_px_to_id', placed_sell_px_to_id')
        /\ (pc = "replenish" /\ mode = "BOX") =>
              /\ \A px \in filled_buy_prices' : placed_buy_px_to_id[px] # NoId
              /\ \A px \in filled_sell_prices' : placed_sell_px_to_id[px] # NoId
      ]_vars

-----------------------------------------------------------------------------
(* Outside the schedule.                                                    *)

(* C38: with the schedule enabled, when a tick that observed the schedule   *)
(* inactive has finished its gate handling, no order of the bot is OPEN on  *)
(* the exchange.                                                            *)
C38_NoOrderOutsideSchedule ==
    (use_schedule /\ pc = "loop" /\ last_tick = "idle") =>
        \A r \in open_orders : r.price \in ForeignPrices

-----------------------------------------------------------------------------
(* BOX placement loop and the min-gap check.                                *)

(* The missing targets of a side the loop has not taken from its iterator.  *)
Untaken(side) == {SideIter(side)[i] : i \in 2..Len(SideIter(side))}
BoxLoopEnds == pc = "box_add" /\ pc' = "replenish"

(* Every request the tick has sent so far is recorded in the mirror.        *)
NoPlacementFailed == \A r \in submitted : r.price \in DOMAIN SideMap(r.side)

(* C39: when the BOX placement loop of a tick without a failed placement    *)
(* ends, every missing target that is at least N away from all mirror rungs *)
(* of its side has been handed to _place_order: none is left in its         *)
(* iterator.                                                                *)
C39_MinGapSkipsOnlyItself ==
    [][(BoxLoopEnds /\ NoPlacementFailed) =>
          \A side \in Sides : \A px \in Untaken(side) :
              ~ HasMinGap(SideMap(side), px)]_vars

-----------------------------------------------------------------------------
(* Grid under a schedule.  The manager holds one interval that starts at    *)
(* the construction of the engine; the exchange is quiet.                   *)
IntervalCoefficients == LotCoefficients \cup {0}

InitL ==
    /\ InitEngineFields
    /\ pc = "loop"
    /\ env_events = MaxEvents
    /\ position_limits = ConfiguredLimits
    /\ mode = "BOX"
    /\ thresholds = FALSE
    /\ use_schedule = TRUE
    /\ schedule_active = FALSE
    /\ all_positions = << >>
    /\ current_balance = None
    /\ \E t \in 1..MaxTime, k \in IntervalCoefficients :
          schedules = List(<< [from |-> 0, to |-> t, lot_coefficient |-> k] >>)

(* run(): is_active() is called and its answer is tested at once.           *)
AskSchedule == pc = "gate" /\ IsActiveCall
GateAnswered ==
    /\ schedule_active = IsActive(schedules.rows, clock)
    /\ Gate

NextL ==
    \/ TickStart
    \/ ClockTick
    \/ AskSchedule
    \/ GateAnswered
    \/ SxList
    \/ SxCancel
    \/ SxClose
    \/ CheckLosscut
    \/ CheckTakeprofit
    \/ CheckBalanceRecovery
    \/ CheckAssetLosscut
    \/ CheckAssetTakeprofit
    \/ PriceFetch
    \/ Refresh
    \/ BoxCancel
    \/ BoxPlan
    \/ BoxAdd
    \/ RepDetect
    \/ Unmanaged
    \/ TickerEvent

SpecL == InitL /\ [][NextL]_vars

(* C40: every grid request sent while a schedule interval is active carries *)
(* the quantity base size times that interval's lot coefficient; with a     *)
(* coefficient of 0 this quantity is 0.                                     *)
C40_QuantityFollowsCoefficient ==
    [][\A r \in submitted' \ submitted :
          (r.origin # "exit" /\ IsActive(schedules.rows, clock)) =>
              r.quantity = BaseSize * GetLotCoefficient(schedules.rows, clock)]_vars
====
